---- MODULE Spec2Model ----
(***************************************************************************)
(* Running Weather Index (RWI) scoring and running guidance of VitaApp.    *)
(*                                                                         *)
(* The scoring functions are pure; each is modelled as an operator and is  *)
(* applied by an action to arguments drawn in the initial state.           *)
(*                                                                         *)
(* Numbers.  Python floats are modelled in decimal fixed point:            *)
(*   heat index                 : units of 10^-4 degF                      *)
(*   component scores S_H..S_D  : units of 10^-6                           *)
(*   RWI before rounding        : units of 10^-8                           *)
(*   returned rwi_score, comps  : units of 10^-2 (after round(x, 2))       *)
(*   returned heat_index        : units of 10^-1 (after round(x, 1))       *)
(* Temperature, humidity, wind, precipitation and dewpoint arguments of    *)
(* calculate_rwi are whole numbers (the forecast parsers produce ints).    *)
(* With whole arguments the simple heat index formula and everything       *)
(* computed from it is exact in these units; the Rothfusz polynomial is    *)
(* exact in 10^-8 and is floored to 10^-4.  round() on a value that lies   *)
(* exactly half way between two results depends on the binary rounding     *)
(* error of the float computation, so the model allows both neighbours.    *)
(***************************************************************************)
EXTENDS Integers, Sequences, FiniteSets, TLC

VARIABLES pc, args, ret

vars == <<pc, args, ret>>

(***************************************************************************)
(* Python values: a number, a string (sequence of characters) or None.     *)
(***************************************************************************)
Num(n) == [k |-> "num", v |-> n]

Str(s) == [k |-> "str", s |-> s]

None == [k |-> "none"]

NA == Str(<<"N", "/", "A">>)

IsNum(x) == x.k = "num"

IsStr(x) == x.k = "str"

\* Python  x != "N/A"
NotNA(x) == ~(IsStr(x) /\ x.s = NA.s)

Raised(e) == [status |-> e]

Min(a, b) == IF a <= b THEN a ELSE b

Max(a, b) == IF a >= b THEN a ELSE b

(***************************************************************************)
(* Strings: str.lower(), the  in  operator, str.split()[0], float(str).    *)
(***************************************************************************)
UpperChars == <<"A", "B", "C", "D", "E", "F", "G", "H", "I", "J", "K", "L", "M",
                "N", "O", "P", "Q", "R", "S", "T", "U", "V", "W", "X", "Y", "Z">>

LowerChars == <<"a", "b", "c", "d", "e", "f", "g", "h", "i", "j", "k", "l", "m",
                "n", "o", "p", "q", "r", "s", "t", "u", "v", "w", "x", "y", "z">>

DigitChars == <<"0", "1", "2", "3", "4", "5", "6", "7", "8", "9">>

LowerChar(c) ==
    IF \E i \in 1..Len(UpperChars) : UpperChars[i] = c
    THEN LowerChars[CHOOSE i \in 1..Len(UpperChars) : UpperChars[i] = c]
    ELSE c

\* variant: the text is compared as it is written
lower_AsWritten(s) == s

lower(s) == [i \in 1..Len(s) |-> LowerChar(s[i])]

\* Python  w in s  for strings
Contains(s, w) ==
    \E i \in 1..(Len(s) - Len(w) + 1) : SubSeq(s, i, i + Len(w) - 1) = w

IsDigit(c) == \E i \in 1..Len(DigitChars) : DigitChars[i] = c

DigitVal(c) == (CHOOSE i \in 1..Len(DigitChars) : DigitChars[i] = c) - 1

RECURSIVE DecimalValue(_)
DecimalValue(ds) ==
    IF ds = <<>> THEN 0
    ELSE 10 * DecimalValue(SubSeq(ds, 1, Len(ds) - 1)) + DigitVal(ds[Len(ds)])

AllDigits(s) == s # <<>> /\ \A i \in 1..Len(s) : IsDigit(s[i])

\* str.split()[0]: the first maximal run of non-blank characters, <<>> if none
FirstToken(s) ==
    IF \A i \in 1..Len(s) : s[i] = " " THEN <<>>
    ELSE LET b == CHOOSE i \in 1..Len(s) :
                      s[i] # " " /\ \A j \in 1..(i - 1) : s[j] = " "
             e == CHOOSE i \in b..Len(s) :
                      /\ \A j \in b..i : s[j] # " "
                      /\ (i = Len(s) \/ s[i + 1] = " ")
         IN  SubSeq(s, b, e)

(***************************************************************************)
(* Fixed-point helpers.                                                    *)
(***************************************************************************)
\* a * b for a, b >= 0 as [q, r] with a*b = q*10^4 + r, 0 <= r < 10^4,
\* computed on four-digit limbs so that no intermediate exceeds 2^31
MulLimbs(a, b) ==
    LET ah == a \div 10000
        al == a % 10000
        bh == b \div 10000
        bl == b % 10000
    IN  [q |-> ah * bh * 10000 + ah * bl + al * bh + ((al * bl) \div 10000),
         r |-> (al * bl) % 10000]

\* signed c * n (c >= 0) in the same representation
SMul(c, n) ==
    IF n >= 0 THEN MulLimbs(c, n)
    ELSE LET m == MulLimbs(c, -n) IN [q |-> -m.q, r |-> -m.r]

\* the possible results of Python round(): x in units 1/d of the result unit
\* (e.g. x in 10^-6, d = 10^4, result in 10^-2); an exact tie may go either way
RoundTo(x, d) ==
    LET q == x \div d
        r == x % d
    IN  IF 2 * r < d THEN {q}
        ELSE IF 2 * r > d THEN {q + 1}
        ELSE {q, q + 1}

(***************************************************************************)
(* calculate_heat_index (enhanced_rwi.py).  T, R whole; result in 10^-4.   *)
(***************************************************************************)
\* variant: the humidity term of the simplified formula is left out
SimpleHI_NoHumidity(T, R) == (10000 * T + 610000 + (T - 68) * 12000) \div 2

\* HI = 0.5 * (T + 61.0 + ((T - 68.0) * 1.2) + (R * 0.094))
SimpleHI(T, R) == (10000 * T + 610000 + (T - 68) * 12000 + R * 940) \div 2

\* variant: the last term (T^2 R^2) of the regression is left out
Rothfusz_NoLastTerm(T, R) ==
    LET t1 == SMul(204901523, T)
        t2 == SMul(1014333127, R)
        t3 == SMul(22475541, T * R)
        t4 == SMul(683783, T * T)
        t5 == SMul(5481717, R * R)
        t6 == SMul(122874, T * T * R)
        t7 == SMul(85282, T * R * R)
        q  == -423790 + t1.q + t2.q - t3.q - t4.q - t5.q + t6.q + t7.q
        r  == t1.r + t2.r - t3.r - t4.r - t5.r + t6.r + t7.r
    IN  q + (r \div 10000)

\* the nine-term Rothfusz regression, exact in 10^-8, floored to 10^-4
Rothfusz(T, R) ==
    LET t1 == SMul(204901523, T)
        t2 == SMul(1014333127, R)
        t3 == SMul(22475541, T * R)
        t4 == SMul(683783, T * T)
        t5 == SMul(5481717, R * R)
        t6 == SMul(122874, T * T * R)
        t7 == SMul(85282, T * R * R)
        t8 == SMul(199, T * T * R * R)
        q  == -423790 + t1.q + t2.q - t3.q - t4.q - t5.q + t6.q + t7.q - t8.q
        r  == t1.r + t2.r - t3.r - t4.r - t5.r + t6.r + t7.r - t8.r
    IN  q + (r \div 10000)

\* variant: the switch to the regression tests the temperature
HeatIndexGE80_OnTemp(T, R) == T >= 80

HeatIndexGE80(T, R) == SimpleHI(T, R) >= 800000

calculate_heat_index(T, R) ==
    IF HeatIndexGE80(T, R) THEN Rothfusz(T, R) ELSE SimpleHI(T, R)

(***************************************************************************)
(* parse_float (enhanced_rwi.py): wind speed from a number or a string     *)
(* such as "5 mph".  float() of a token is modelled for tokens made of     *)
(* decimal digits; every other token of the modelled strings (letters,     *)
(* "/") is rejected by float() with ValueError.                            *)
(***************************************************************************)
parse_float(wind_str) ==
    IF IsNum(wind_str) THEN [status |-> "ok", v |-> wind_str.v]
    ELSE IF wind_str.k = "none" \/ wind_str.s = <<>> THEN [status |-> "ok", v |-> 0]
    ELSE IF FirstToken(wind_str.s) = <<>> THEN Raised("IndexError")
    ELSE IF AllDigits(FirstToken(wind_str.s))
         THEN [status |-> "ok", v |-> DecimalValue(FirstToken(wind_str.s))]
         ELSE Raised("ValueError")

(***************************************************************************)
(* Component scores of calculate_rwi, in units of 10^-6.                   *)
(* heat_index in 10^-4 degF; T, V, P, D whole numbers.                     *)
(***************************************************************************)
\* variant: above 105 the slope of the last band continues, without floor
HeatBand_NoFloor(heat_index) ==
    IF heat_index <= 650000 THEN 5000000
    ELSE IF heat_index <= 750000 THEN 4500000 - (heat_index - 650000) * 5
    ELSE IF heat_index <= 850000 THEN 4000000 - (heat_index - 750000) * 20
    ELSE IF heat_index <= 950000 THEN 2000000 - (heat_index - 850000) * 5
    ELSE 1500000 - (heat_index - 950000) * 5

\* 1. thermal comfort from the heat index, before the cold override
HeatBand(heat_index) ==
    IF heat_index <= 650000 THEN 5000000
    ELSE IF heat_index <= 750000 THEN 4500000 - (heat_index - 650000) * 5
    ELSE IF heat_index <= 850000 THEN 4000000 - (heat_index - 750000) * 20
    ELSE IF heat_index <= 950000 THEN 2000000 - (heat_index - 850000) * 5
    ELSE IF heat_index <= 1050000 THEN 1500000 - (heat_index - 950000) * 5
    ELSE 1000000

S_H(heat_index, T) ==
    IF T < 20 THEN 1000000
    ELSE IF T < 30 THEN Min(HeatBand(heat_index), 2000000)
    ELSE IF T < 40 THEN Min(HeatBand(heat_index), 3000000)
    ELSE HeatBand(heat_index)

SunWords == {<<"s", "u", "n", "n", "y">>,
             <<"c", "l", "e", "a", "r">>,
             <<"f", "a", "i", "r">>}

MixedWords == {<<"p", "a", "r", "t", "l", "y", " ", "c", "l", "o", "u", "d", "y">>,
               <<"p", "a", "r", "t", "l", "y", " ", "s", "u", "n", "n", "y">>,
               <<"s", "c", "a", "t", "t", "e", "r", "e", "d">>}

CloudWords == {<<"c", "l", "o", "u", "d", "y">>,
               <<"o", "v", "e", "r", "c", "a", "s", "t">>,
               <<"m", "o", "s", "t", "l", "y", " ", "c", "l", "o", "u", "d", "y">>}

AnyWordIn(words, s) == \E word \in words : Contains(s, word)

\* variant: the clamp of the solar score is left out
ClampSolar_Missing(s) == s

\* S_S = min(5, max(1, S_S))
ClampSolar(s) == Min(5000000, Max(1000000, s))

\* variant: the penalty subtracted as it is, not multiplied by 5
S_S_PenaltyUnscaled(heat_index, forecast) ==
    LET forecast_lower == lower(forecast)
        solar_penalty  == Min(800000, (heat_index - 700000) * 2)
    IN  ClampSolar(
          IF AnyWordIn(SunWords, forecast_lower)
          THEN IF heat_index > 700000 THEN 5000000 - solar_penalty
               ELSE 5000000
          ELSE IF AnyWordIn(MixedWords, forecast_lower) THEN 5000000
          ELSE IF AnyWordIn(CloudWords, forecast_lower)
          THEN IF heat_index > 750000 THEN 5000000 + 500000 ELSE 5000000
          ELSE 5000000)

\* 2. solar / cloud cover adjustment
S_S(heat_index, forecast) ==
    LET forecast_lower == lower(forecast)
        solar_penalty  == Min(800000, (heat_index - 700000) * 2)
    IN  ClampSolar(
          IF AnyWordIn(SunWords, forecast_lower)
          THEN IF heat_index > 700000 THEN 5000000 - solar_penalty * 5
               ELSE 5000000
          ELSE IF AnyWordIn(MixedWords, forecast_lower) THEN 5000000
          ELSE IF AnyWordIn(CloudWords, forecast_lower)
          THEN IF heat_index > 750000 THEN 5000000 + 500000 ELSE 5000000
          ELSE 5000000)

\* variant: the first band (still air) given the top score
S_W_CalmBest(V) ==
    IF V <= 1 THEN 5000000
    ELSE IF V <= 5 THEN 4500000
    ELSE IF V <= 12 THEN 5000000
    ELSE IF V <= 20 THEN 4500000
    ELSE IF V <= 30 THEN 3000000
    ELSE 2000000

\* 3. wind
S_W(V) ==
    IF V <= 1 THEN 3500000
    ELSE IF V <= 5 THEN 4500000
    ELSE IF V <= 12 THEN 5000000
    ELSE IF V <= 20 THEN 4500000
    ELSE IF V <= 30 THEN 3000000
    ELSE 2000000

\* 4. precipitation
S_P(P) ==
    IF P < 5 THEN 5000000
    ELSE IF P < 15 THEN 4500000
    ELSE IF P < 30 THEN 4000000
    ELSE IF P < 50 THEN 3000000
    ELSE IF P < 70 THEN 2000000
    ELSE 1000000

\* variant: the scores of the third and fourth band exchanged
S_D_Swapped(D) ==
    IF D <= 45 THEN 5000000
    ELSE IF D <= 55 THEN 4500000
    ELSE IF D <= 65 THEN 2500000
    ELSE IF D <= 70 THEN 3500000
    ELSE 1500000

\* 5. dew point comfort
S_D(D) ==
    IF D <= 45 THEN 5000000
    ELSE IF D <= 55 THEN 4500000
    ELSE IF D <= 65 THEN 3500000
    ELSE IF D <= 70 THEN 2500000
    ELSE 1500000

\* variant: the five components weighted equally
WeightedSum_Equal(sh, ss, sw, sp, sd) == 20 * (sh + ss + sw + sp + sd)

\* weighted combination, units 10^-8 (weights in hundredths)
WeightedSum(sh, ss, sw, sp, sd) ==
    45 * sh + 20 * ss + 15 * sw + 10 * sp + 10 * sd

\* variant: min and max exchanged
ClampRWI_Swapped(x) == Min(100000000, Max(500000000, x))

\* RWI = max(1.0, min(5.0, RWI))
ClampRWI(x) == Max(100000000, Min(500000000, x))

\* integer rating from the clamped, unrounded RWI (10^-8)
RatingOf(RWI) ==
    IF RWI >= 450000000 THEN 5
    ELSE IF RWI >= 350000000 THEN 4
    ELSE IF RWI >= 250000000 THEN 3
    ELSE IF RWI >= 150000000 THEN 2
    ELSE 1

\* the returned dict; one element per way the round() ties can fall
ResultDicts(RWI, heat_index, sh, ss, sw, sp, sd) ==
    { [status     |-> "ok",
       rwi_score  |-> rs,
       rating     |-> RatingOf(RWI),
       heat_index |-> hi,
       components |-> [thermal_comfort  |-> c1,
                       solar_conditions |-> c2,
                       wind             |-> c3,
                       precipitation    |-> c4,
                       dewpoint_comfort |-> c5]] :
      rs \in RoundTo(RWI, 1000000), hi \in RoundTo(heat_index, 1000),
      c1 \in RoundTo(sh, 10000), c2 \in RoundTo(ss, 10000),
      c3 \in RoundTo(sw, 10000), c4 \in RoundTo(sp, 10000),
      c5 \in RoundTo(sd, 10000) }

(***************************************************************************)
(* calculate_rwi (enhanced_rwi.py).  Arguments are Python values; forecast *)
(* is a character sequence.  The result is the set of dicts the call can   *)
(* return, or a single record naming the exception it raises.              *)
(***************************************************************************)
calculate_rwi(temperature, humidity, wind_speed, precipitation, forecast, dewpoint_fahrenheit) ==
    LET V == parse_float(wind_speed)
    IN  IF V.status # "ok" THEN {V}
        ELSE IF ~IsNum(temperature) \/ ~IsNum(humidity) THEN {Raised("TypeError")}
        ELSE IF ~IsNum(precipitation) THEN {Raised("TypeError")}
        ELSE IF ~IsNum(dewpoint_fahrenheit) THEN {Raised("TypeError")}
        ELSE LET T  == temperature.v
                 heat_index == calculate_heat_index(T, humidity.v)
                 sh == S_H(heat_index, T)
                 ss == S_S(heat_index, forecast)
                 sw == S_W(V.v)
                 sp == S_P(precipitation.v)
                 sd == S_D(dewpoint_fahrenheit.v)
                 RWI == ClampRWI(WeightedSum(sh, ss, sw, sp, sd))
             IN  ResultDicts(RWI, heat_index, sh, ss, sw, sp, sd)

(***************************************************************************)
(* calculate_rwi_score (Backups/multi_agent_runner.html_sept24.py): the    *)
(* wrapper that substitutes defaults for "N/A" and catches exceptions.     *)
(***************************************************************************)
\* re.search(r'(\d+)', s): value of the first maximal run of digits, or 0
FirstDigits(s) ==
    IF \A i \in 1..Len(s) : ~IsDigit(s[i]) THEN 0
    ELSE LET b == CHOOSE i \in 1..Len(s) :
                      IsDigit(s[i]) /\ \A j \in 1..(i - 1) : ~IsDigit(s[j])
             e == CHOOSE i \in b..Len(s) :
                      /\ \A j \in b..i : IsDigit(s[j])
                      /\ (i = Len(s) \/ ~IsDigit(s[i + 1]))
         IN  DecimalValue(SubSeq(s, b, e))

\* Python float(x): numbers pass, digit strings parse, None is a TypeError
float(x) ==
    IF IsNum(x) THEN [status |-> "ok", v |-> x.v]
    ELSE IF IsStr(x)
         THEN IF AllDigits(x.s) THEN [status |-> "ok", v |-> DecimalValue(x.s)]
              ELSE Raised("ValueError")
         ELSE Raised("TypeError")

\* float(x) if x != "N/A" else default
FloatOr(x, default) ==
    IF NotNA(x) THEN float(x) ELSE [status |-> "ok", v |-> default]

\* hour_data and 'solar_score' in hour_data
HasSolarScore(hour_data) ==
    hour_data.k = "dict" /\ "solar_score" \in DOMAIN hour_data

\* the except branch: a fixed neutral result, heat_index from the raw argument
Fallback(temperature) ==
    LET t == FloatOr(temperature, 70)
    IN  IF t.status # "ok" THEN Raised(t.status)
        ELSE [status     |-> "ok",
              rwi_score  |-> 300,
              rating     |-> 3,
              heat_index |-> 10 * t.v,
              components |-> [thermal_comfort  |-> 300,
                              solar_conditions |-> 300,
                              wind             |-> 300,
                              precipitation    |-> 300,
                              dewpoint_comfort |-> 300]]

\* result['components']['solar_conditions'] = solar_score
WithSolar(result, hour_data) ==
    IF HasSolarScore(hour_data)
    THEN [result EXCEPT !.components.solar_conditions = hour_data.solar_score]
    ELSE result

\* the wind speed of the wrapper: a string gives the first run of digits
\* in it (0 without digit), then float(wind_speed) if wind_speed != "N/A"
WrapperWind(wind_speed) ==
    FloatOr(IF IsStr(wind_speed) THEN Num(FirstDigits(wind_speed.s))
            ELSE wind_speed, 0)

calculate_rwi_score(temperature, humidity, wind_speed, precipitation, forecast, dewpoint_fahrenheit, hour_data) ==
    LET temp   == FloatOr(temperature, 70)
        humid  == FloatOr(humidity, 50)
        wind   == WrapperWind(wind_speed)
        precip == FloatOr(precipitation, 0)
        dewpoint == IF temp.status = "ok"
                    THEN FloatOr(dewpoint_fahrenheit, temp.v - 15)
                    ELSE temp
        converted == \A c \in {temp, humid, wind, precip, dewpoint} :
                         c.status = "ok"
        inner  == calculate_rwi(Num(temp.v), Num(humid.v), Num(wind.v),
                                Num(precip.v), forecast, Num(dewpoint.v))
    IN  IF converted /\ \A r \in inner : r.status = "ok"
        THEN {WithSolar(r, hour_data) : r \in inner}
        ELSE {Fallback(temperature)}

(***************************************************************************)
(* score_hour_with_scientific_approach (multi_agent_runner.html_sept24.py) *)
(* An hour record is a dict of the parser: Temp, Wind, Humidity, Precip,   *)
(* Forecast, and with the JSON parser dewpoint_fahrenheit and solar_score. *)
(* The result keeps the numeric keys; the texts heat_stress_level and      *)
(* running_recommendation, which no score depends on, are left out, and    *)
(* rwi_rating records rwi_result['rating'] as computed before the          *)
(* temperature override.                                                   *)
(***************************************************************************)
\* hour_data.get(key, 'N/A')
get(hour_data, key) == IF key \in DOMAIN hour_data THEN hour_data[key] ELSE NA

\* x unless it is "N/A", then the default
OrDefault(x, default) == IF NotNA(x) THEN x ELSE Num(default)

get_aqi_category(aqi_value) ==
    IF ~NotNA(aqi_value) \/ aqi_value.k = "none" THEN "Unknown"
    ELSE IF aqi_value.v <= 50 THEN "Good"
    ELSE IF aqi_value.v <= 100 THEN "Moderate"
    ELSE IF aqi_value.v <= 150 THEN "Unhealthy for Sensitive"
    ELSE IF aqi_value.v <= 200 THEN "Unhealthy"
    ELSE IF aqi_value.v <= 300 THEN "Very Unhealthy"
    ELSE "Hazardous"

\* the temperature safety override of the rating
OverrideScore(temp, rating) ==
    IF temp >= 90 THEN 1 ELSE IF temp >= 85 THEN 2 ELSE rating

\* the same override of the raw score (hundredths)
OverrideRaw(temp, rwi_score) ==
    IF temp >= 90 THEN 100 ELSE IF temp >= 85 THEN 200 ELSE rwi_score

score_hour_with_scientific_approach(hour_data, aqi_value) ==
    LET wind0    == get(hour_data, "Wind")
        wind     == IF IsStr(wind0) /\ NotNA(wind0)
                    THEN Num(FirstDigits(wind0.s)) ELSE wind0
        temp     == OrDefault(get(hour_data, "Temp"), 70)
        humidity == OrDefault(get(hour_data, "Humidity"), 50)
        precip   == OrDefault(get(hour_data, "Precip"), 0)
        dewpoint == OrDefault(get(hour_data, "dewpoint_fahrenheit"), temp.v - 15)
    IN  { [status         |-> "ok",
           raw_score      |-> OverrideRaw(temp.v, rwi_result.rwi_score),
           score_100      |-> OverrideScore(temp.v, rwi_result.rating) * 20,
           final_score    |-> OverrideScore(temp.v, rwi_result.rating),
           aqi_category   |-> get_aqi_category(aqi_value),
           heat_index     |-> rwi_result.heat_index,
           rwi_components |-> rwi_result.components,
           rwi_rating     |-> rwi_result.rating] :
          rwi_result \in calculate_rwi_score(temp, humidity, OrDefault(wind, 0),
                                             precip, hour_data.Forecast,
                                             dewpoint, hour_data) }

(***************************************************************************)
(* _format_air_quality_forecast (mcp_server_air_quality.py): the forecast  *)
(* rows of the air-quality API as a text table with the header Date, AQI,  *)
(* Category, Pollutant.  A row is a record DateForecast, AQI, Category,    *)
(* ReportingArea; AQI is an integer, the others are character sequences.   *)
(* Column padding and rule lines of the table consist of blanks and of     *)
(* "+", "-", "=" only; they are reduced to one blank around each cell and  *)
(* one rule character per column.                                          *)
(***************************************************************************)
RECURSIVE Digits(_)
\* str(n) for n >= 0
Digits(n) == IF n < 10 THEN <<DigitChars[n + 1]>>
             ELSE Digits(n \div 10) \o <<DigitChars[(n % 10) + 1]>>

\* str(n) for an integer
IntText(n) == IF n < 0 THEN <<"-">> \o Digits(-n) ELSE Digits(n)

\* a date as the API writes it, YYYY-MM-DD
DateText(year, month, day) ==
    Digits(year) \o <<"-">>
        \o (IF month < 10 THEN <<"0">> ELSE <<>>) \o Digits(month) \o <<"-">>
        \o (IF day < 10 THEN <<"0">> ELSE <<>>) \o Digits(day)

TableLine(a, b, c, d) ==
    <<"|", " ">> \o a \o <<" ", "|", " ">> \o b \o <<" ", "|", " ">> \o c
        \o <<" ", "|", " ">> \o d \o <<" ", "|", "\n">>

TableRule(ch) == <<"+", ch, "+", ch, "+", ch, "+", ch, "+", "\n">>

RECURSIVE TableRows(_)
TableRows(data) ==
    IF data = <<>> THEN <<>>
    ELSE LET forecast == Head(data)
         IN  TableLine(forecast.DateForecast, IntText(forecast.AQI),
                       forecast.Category, forecast.ReportingArea)
                 \o TableRule("-") \o TableRows(Tail(data))

NoAirQualityData ==
    <<"N", "o", " ", "a", "i", "r", " ", "q", "u", "a", "l", "i", "t", "y",
      " ", "d", "a", "t", "a", " ", "f", "o", "u", "n", "d", " ", "f", "o",
      "r", " ", "t", "h", "e", " ", "l", "o", "c", "a", "t", "i", "o", "n",
      ".">>

_format_air_quality_forecast(data) ==
    IF data = <<>> THEN NoAirQualityData
    ELSE LET table == TableRule("-")
                        \o TableLine(<<"D", "a", "t", "e">>, <<"A", "Q", "I">>,
                               <<"C", "a", "t", "e", "g", "o", "r", "y">>,
                               <<"P", "o", "l", "l", "u", "t", "a", "n", "t">>)
                        \o TableRule("=") \o TableRows(data)
         IN  SubSeq(table, 1, Len(table) - 1)

(***************************************************************************)
(* scoring_agent (multi_agent_runner.py).  parsed_weather holds the lists  *)
(* today and tomorrow of hour records; time_windows is the dict of the     *)
(* submitted windows in insertion order, a sequence of [key, times].       *)
(***************************************************************************)
\* a character the regular expression class \w accepts
IsWordChar(c) ==
    \/ IsDigit(c)
    \/ c = "_"
    \/ \E i \in 1..Len(UpperChars) : UpperChars[i] = c \/ LowerChars[i] = c

\* starts of the matches of r'\b(\d{1,3})\b': a run of one to three digits
\* with no word character before it and none after it
AqiMatchStarts(s) ==
    {b \in 1..Len(s) :
        /\ b = 1 \/ ~IsWordChar(s[b - 1])
        /\ \E e \in b..Min(b + 2, Len(s)) :
              /\ \A j \in b..e : IsDigit(s[j])
              /\ e = Len(s) \/ ~IsWordChar(s[e + 1])}

\* aqi_match = re.search(r'\b(\d{1,3})\b', aqi_data);
\* int(aqi_match.group(1)) if aqi_match else None
today_aqi(aqi_data) ==
    IF AqiMatchStarts(aqi_data) = {} THEN None
    ELSE LET b == CHOOSE i \in AqiMatchStarts(aqi_data) :
                      \A j \in AqiMatchStarts(aqi_data) : i <= j
             e == CHOOSE i \in b..Len(aqi_data) :
                      /\ \A j \in b..i : IsDigit(aqi_data[j])
                      /\ (i = Len(aqi_data) \/ ~IsDigit(aqi_data[i + 1]))
         IN  Num(DecimalValue(SubSeq(aqi_data, b, e)))

\* int(time_str.split(':')[0]) for the "HH:MM" values of the form
time_to_hour(time_str) ==
    LET colons == {i \in 1..Len(time_str) : time_str[i] = ":"}
        n == IF colons = {} THEN Len(time_str)
             ELSE (CHOOSE i \in colons : \A j \in colons : i <= j) - 1
    IN  DecimalValue(SubSeq(time_str, 1, n))

\* 'today' in window_key, for the four window keys of location_agent
IsTodayWindow(window_key) == window_key \in {"today_1", "today_2"}

\* {**hour_data, ...}: the hour record with the score keys added.  The
\* forecast values of the hour records scored here have no rounding tie,
\* so the set has one element.
ScoredHour(h, aqi_value) ==
    CHOOSE hour \in
        { [raw_score      |-> r.raw_score,
           score_100      |-> r.score_100,
           final_score    |-> r.final_score,
           aqi_category   |-> r.aqi_category,
           heat_index     |-> r.heat_index,
           rwi_components |-> r.rwi_components] @@ h :
          r \in score_hour_with_scientific_approach(h, aqi_value) } : TRUE

\* (hour.get('day_category'), hour.get('HourNum'))
hour_key(hour) ==
    [day_category |-> IF "day_category" \in DOMAIN hour
                      THEN Str(hour.day_category) ELSE None,
     HourNum      |-> hour.HourNum]

RECURSIVE AppendUnseen(_, _)
\* for hour in scored: append unless its key is in seen_hours
AppendUnseen(all_scored_hours, scored) ==
    IF scored = <<>> THEN all_scored_hours
    ELSE LET hour == Head(scored)
             seen == \E i \in 1..Len(all_scored_hours) :
                         hour_key(all_scored_hours[i]) = hour_key(hour)
         IN  AppendUnseen(IF seen THEN all_scored_hours
                          ELSE Append(all_scored_hours, hour), Tail(scored))

\* the hours of the window's day between its start and end hour
FilteredHours(parsed_weather, window_key, times) ==
    LET start_hour  == time_to_hour(times[1])
        end_hour    == time_to_hour(times[2])
        data_source == IF IsTodayWindow(window_key)
                       THEN parsed_weather.today ELSE parsed_weather.tomorrow
    IN  SelectSeq(data_source,
                  LAMBDA h : /\ NotNA(h.HourNum)
                             /\ start_hour <= h.HourNum.v
                             /\ h.HourNum.v <= end_hour)

RECURSIVE ScoreWindows(_, _, _, _)
\* the loop over time_windows.items()
ScoreWindows(time_windows, parsed_weather, aqi_value, all_scored_hours) ==
    IF time_windows = <<>> THEN all_scored_hours
    ELSE LET w        == Head(time_windows)
             filtered == FilteredHours(parsed_weather, w.key, w.times)
             scored   == [i \in 1..Len(filtered) |->
                              ScoredHour(filtered[i], aqi_value)]
         IN  ScoreWindows(Tail(time_windows), parsed_weather, aqi_value,
                          AppendUnseen(all_scored_hours, scored))

\* characters in the order of their code points, as far as day categories
\* and the default 'z' use them
CodePointOrder ==
    <<" ", ",", "-">> \o DigitChars \o UpperChars \o <<"_">> \o LowerChars

CodePoint(c) == CHOOSE i \in 1..Len(CodePointOrder) : CodePointOrder[i] = c

\* Python  a < b  for strings
StrLt(a, b) ==
    LET n == Min(Len(a), Len(b))
        p == CHOOSE k \in 0..n :
                 /\ SubSeq(a, 1, k) = SubSeq(b, 1, k)
                 /\ (k = n \/ a[k + 1] # b[k + 1])
    IN  IF p = n THEN Len(a) < Len(b)
        ELSE CodePoint(a[p + 1]) < CodePoint(b[p + 1])

\* x.get('day_category', 'z')
DayCategoryKey(x) == IF "day_category" \in DOMAIN x THEN x.day_category ELSE <<"z">>

\* key(a) < key(b) for key = (day_category or 'z', HourNum)
SortKeyLt(a, b) ==
    \/ StrLt(DayCategoryKey(a), DayCategoryKey(b))
    \/ DayCategoryKey(a) = DayCategoryKey(b) /\ a.HourNum.v < b.HourNum.v

RECURSIVE SortHours(_)
\* list.sort(key=...): stable, entries with equal keys keep their order
SortHours(hours) ==
    IF hours = <<>> THEN <<>>
    ELSE LET rest == SortHours(SubSeq(hours, 1, Len(hours) - 1))
             x    == hours[Len(hours)]
             n    == Cardinality({i \in 1..Len(rest) : ~SortKeyLt(x, rest[i])})
         IN  SubSeq(rest, 1, n) \o <<x>> \o SubSeq(rest, n + 1, Len(rest))

scoring_agent(state) ==
    [state EXCEPT !.scored_hours =
        SortHours(ScoreWindows(state.time_windows, state.parsed_weather,
                               today_aqi(state.aqi_data), <<>>))]

(***************************************************************************)
(* Argument domains.                                                       *)
(***************************************************************************)
MaxTemperature == 150

MaxHumidity == 200

MaxWind == 35

MaxPrecipitation == 100

MaxDewpoint == 78

Missing == {NA, None}

Temperatures ==
    {Num(t) : t \in {15, 25, 35, 60, 68, 72, 77, 83, 95, MaxTemperature}} \cup Missing

Humidities == {Num(h) : h \in {10, 54, 90, MaxHumidity}} \cup Missing

WindSpeeds ==
    {Num(v) : v \in {0, 8, 25, MaxWind}}
        \cup {Str(<<"5", " ", "m", "p", "h">>), NA, None}

Precipitations == {Num(p) : p \in {2, 20, 60, MaxPrecipitation}} \cup Missing

Dewpoints == {Num(d) : d \in {40, 59, MaxDewpoint}} \cup Missing

Forecasts == {<<"S", "u", "n", "n", "y">>,
              <<"C", "l", "e", "a", "r">>,
              <<"M", "o", "s", "t", "l", "y", " ", "C", "l", "o", "u", "d", "y">>,
              <<"T", "h", "u", "n", "d", "e", "r", "s", "t", "o", "r", "m">>}

HourDatas == {None, [k |-> "dict"], [k |-> "dict", solar_score |-> 350]}

NoResult == [status |-> "none"]

(***************************************************************************)
(* Scoring calls: the arguments are drawn in the initial state, an action  *)
(* applies one entry point to them.                                        *)
(***************************************************************************)
InitRwi ==
    /\ pc = "start"
    /\ args \in [temperature : Temperatures, humidity : Humidities,
                 wind_speed : WindSpeeds, precipitation : Precipitations,
                 forecast : Forecasts, dewpoint_fahrenheit : Dewpoints,
                 hour_data : {None}]
    /\ ret = NoResult

CallCalculateRwi ==
    /\ pc = "start"
    /\ pc' = "calculate_rwi"
    /\ ret' \in calculate_rwi(args.temperature, args.humidity, args.wind_speed,
                              args.precipitation, args.forecast,
                              args.dewpoint_fahrenheit)
    /\ UNCHANGED args

CallCalculateRwiScore ==
    /\ pc = "start"
    /\ pc' = "calculate_rwi_score"
    /\ \E hd \in HourDatas :
          /\ args' = [args EXCEPT !.hour_data = hd]
          /\ ret' \in calculate_rwi_score(args.temperature, args.humidity,
                                          args.wind_speed, args.precipitation,
                                          args.forecast,
                                          args.dewpoint_fahrenheit, hd)

NextRwi == CallCalculateRwi \/ CallCalculateRwiScore

SpecRwi == InitRwi /\ [][NextRwi]_vars

(***************************************************************************)
(* Heat index calls on a dense grid of whole temperatures and humidities.  *)
(***************************************************************************)
MinHeatTemp == 40

MaxHeatTemp == 120

MaxHeatHumidity == 100

InitHeat ==
    /\ pc = "start"
    /\ args \in [temp_f : MinHeatTemp..MaxHeatTemp,
                 humidity_percent : 0..MaxHeatHumidity]
    /\ ret = NoResult

CallCalculateHeatIndex ==
    /\ pc = "start"
    /\ pc' = "calculate_heat_index"
    /\ ret' = [status |-> "ok",
               HI |-> calculate_heat_index(args.temp_f, args.humidity_percent)]
    /\ UNCHANGED args

NextHeat == CallCalculateHeatIndex

SpecHeat == InitHeat /\ [][NextHeat]_vars

(***************************************************************************)
(* Guidance generator (Backups/multi_agent_runner_with_gemini_score.py).   *)
(* A number here may carry a half: Half(n) is n + 0.5, so that readings    *)
(* between two whole thresholds can be given to the rule tables.           *)
(* Message and headline texts are the source's, without the emoji.         *)
(***************************************************************************)
Half(n) == [k |-> "num", v |-> n, half |-> TRUE]

IsHalf(x) == "half" \in DOMAIN x

\* x <= c, x < c, x >= c for a number x and a whole constant c
Le(x, c) == x.v < c \/ (x.v = c /\ ~IsHalf(x))

Lt(x, c) == x.v < c

Ge(x, c) == x.v >= c

Between(a, x, b) == Ge(x, a) /\ Le(x, b)

IDEAL == 0

MANAGEABLE == 1

CAUTION == 2

HIGH_RISK == 3

DANGEROUS == 4

Guidance(risk, msg) == [status |-> "ok", risk |-> risk, msg |-> msg]

\* comparing None (or a string other than the sentinel) with a number
Comparable(x) == IsNum(x)

_get_heat_stress_guidance(temp, dewpoint) ==
    IF ~NotNA(temp) \/ ~NotNA(dewpoint)
    THEN Guidance(CAUTION, "Heat data unavailable; hydrate and monitor effort.")
    ELSE IF ~Comparable(temp) \/ ~Comparable(dewpoint) THEN Raised("TypeError")
    ELSE IF Le(temp, 75)
    THEN IF Lt(dewpoint, 60)
         THEN Guidance(IDEAL, "Ideal heat/dew point. Good for all workouts.")
         ELSE IF Between(60, dewpoint, 65)
         THEN Guidance(MANAGEABLE, "Manageable heat. Hydrate well; avoid very long tempos.")
         ELSE IF Between(66, dewpoint, 70)
         THEN Guidance(CAUTION, "Caution: High humidity. Stick to easy runs and hydrate.")
         ELSE IF Between(71, dewpoint, 75)
         THEN Guidance(HIGH_RISK, "High heat stress risk. Short/easy runs only, or move indoors.")
         ELSE Guidance(DANGEROUS, "Dangerous heat/humidity. Postpone or run indoors.")
    ELSE IF Between(76, temp, 85)
    THEN IF Lt(dewpoint, 60)
         THEN Guidance(CAUTION, "Temp is high but dew point is low. Hydrate well.")
         ELSE IF Between(60, dewpoint, 65)
         THEN Guidance(CAUTION, "Caution: Heat and humidity rising. Easy runs only.")
         ELSE IF Between(66, dewpoint, 70)
         THEN Guidance(HIGH_RISK, "High Risk: Avoid intervals. Consider shaded routes or treadmill.")
         ELSE IF Between(71, dewpoint, 75)
         THEN Guidance(HIGH_RISK, "High Risk: Heat and humidity are a major factor. Short/easy runs only.")
         ELSE Guidance(DANGEROUS, "Very Dangerous conditions. Strongly consider indoor options.")
    ELSE IF Lt(dewpoint, 66)
         THEN Guidance(HIGH_RISK, "High Risk: Very hot. Run early/late, hydrate aggressively.")
         ELSE IF Between(66, dewpoint, 75)
         THEN Guidance(DANGEROUS, "Very Dangerous conditions due to extreme heat and humidity.")
         ELSE Guidance(DANGEROUS, "Extreme Danger: Outdoor running is not recommended.")

_get_wind_guidance(wind) ==
    IF ~NotNA(wind) THEN Guidance(IDEAL, "")
    ELSE IF ~Comparable(wind) THEN Raised("TypeError")
    ELSE IF Le(wind, 15) THEN Guidance(IDEAL, "")
    ELSE IF Between(16, wind, 25)
    THEN Guidance(MANAGEABLE, "Windy: Focus on effort, not pace, as there will be noticeable drag.")
    ELSE Guidance(CAUTION, "High Wind: Risk of dehydration and safety hazards. Consider treadmill.")

Thunder == <<"t", "h", "u", "n", "d", "e", "r">>

\* forecast: the lower-cased forecast text
_get_precip_guidance(precip, forecast) ==
    IF ~NotNA(precip) THEN Guidance(IDEAL, "")
    ELSE IF Contains(forecast, Thunder)
    THEN Guidance(DANGEROUS, "Thunderstorms forecast: Unsafe for outdoor running. Postpone or run indoors.")
    ELSE IF ~Comparable(precip) THEN Raised("TypeError")
    ELSE IF Lt(precip, 20) THEN Guidance(IDEAL, "")
    ELSE IF Between(20, precip, 60)
    THEN Guidance(MANAGEABLE, "Rain likely: Wear moisture-wicking clothes and watch for blisters.")
    ELSE Guidance(CAUTION, "Heavy Rain: High chance of getting soaked. Run indoors if preferred.")

AqiUnavailableNote == "AQI data unavailable; be mindful of air quality."

_get_aqi_guidance(aqi_value) ==
    IF ~NotNA(aqi_value) THEN Guidance(IDEAL, AqiUnavailableNote)
    ELSE IF ~Comparable(aqi_value) THEN Raised("TypeError")
    ELSE IF Le(aqi_value, 50) THEN Guidance(IDEAL, "")
    ELSE IF Between(51, aqi_value, 100)
    THEN Guidance(MANAGEABLE, "AQI is Moderate. Sensitive groups should take caution.")
    ELSE IF Between(101, aqi_value, 150)
    THEN Guidance(CAUTION, "AQI Unhealthy for Sensitive Groups. Consider a treadmill or mask.")
    ELSE IF Between(151, aqi_value, 200)
    THEN Guidance(HIGH_RISK, "AQI is Unhealthy. Outdoor running is not recommended.")
    ELSE Guidance(DANGEROUS, "AQI is Very Unhealthy/Hazardous. Avoid all outdoor activity.")

\* variant: min in place of max
HighestRisk_Min(factors) ==
    CHOOSE r \in {factors[i].risk : i \in 1..Len(factors)} :
        \A i \in 1..Len(factors) : r <= factors[i].risk

\* max(factor[0] for factor in guidance_factors)
RECURSIVE HighestRisk(_)
HighestRisk(factors) ==
    IF Len(factors) = 1 THEN factors[1].risk
    ELSE Max(factors[1].risk, HighestRisk(Tail(factors)))

\* variant: every non-empty message is kept
KeepMessage_AnyText(factor) == factor.msg # ""

\* factor[0] > IDEAL and factor[1]
KeepMessage(factor) == factor.risk > IDEAL /\ factor.msg # ""

\* [factor[1] for factor in guidance_factors if ...]
RECURSIVE CollectMessages(_)
CollectMessages(factors) ==
    IF factors = <<>> THEN <<>>
    ELSE (IF KeepMessage(Head(factors)) THEN <<Head(factors).msg>> ELSE <<>>)
             \o CollectMessages(Tail(factors))

UvNote == "UV Index data not available; check local sources for sun safety on clear days."

SummaryHeader(highest_risk) ==
    IF highest_risk = IDEAL THEN "Excellent Conditions: Great for any workout."
    ELSE IF highest_risk = MANAGEABLE THEN "Good Conditions: Minor factors to consider."
    ELSE IF highest_risk = CAUTION THEN "Caution Advised: Adjust your run based on conditions."
    ELSE IF highest_risk = HIGH_RISK
    THEN "High Risk: Consider a short/easy run or an indoor alternative."
    ELSE IF highest_risk = DANGEROUS
    THEN "Dangerous Conditions: Outdoor running is not recommended."
    ELSE ""

\* The returned text is summary_header followed by the <ul> of messages; it
\* is kept as its two parts, together with the locals it was built from.
_get_running_recommendation(hour_data, aqi_value) ==
    LET forecast == lower(hour_data.Forecast)
        guidance_factors ==
            << _get_heat_stress_guidance(hour_data.Temp,
                                         hour_data.dewpoint_fahrenheit),
               _get_wind_guidance(hour_data.Wind),
               _get_precip_guidance(hour_data.Precip, forecast),
               _get_aqi_guidance(aqi_value) >>
        failed == {i \in 1..4 : guidance_factors[i].status # "ok"}
    IN  IF failed # {}
        THEN Raised(guidance_factors[CHOOSE i \in failed :
                                        \A j \in failed : i <= j].status)
        ELSE [status           |-> "ok",
              guidance_factors |-> guidance_factors,
              highest_risk     |-> HighestRisk(guidance_factors),
              summary_header   |-> SummaryHeader(HighestRisk(guidance_factors)),
              messages         |-> Append(CollectMessages(guidance_factors),
                                          UvNote)]

MaxGuideTemp == 95

MaxGuideDewpoint == 78

MaxGuideWind == 26

MaxGuidePrecip == 61

MaxAqi == 201

GuideTemps == {Num(t) : t \in {70, 75, 76, 85, 86, 95, MaxGuideTemp}} \cup {NA}

GuideDewpoints ==
    {Num(d) : d \in {55, 60, 65, 66, 70, 71, 75, 76, 78, MaxGuideDewpoint}} \cup {NA}

GuideWinds == {Num(v) : v \in {0, 15, 16, 25, MaxGuideWind}} \cup {NA}

GuidePrecips == {Num(p) : p \in {0, 19, 20, 60, MaxGuidePrecip}} \cup {NA}

GuideForecasts == {<<"S", "u", "n", "n", "y">>,
                   <<"T", "h", "u", "n", "d", "e", "r", "s", "t", "o", "r", "m">>}

AqiValues ==
    {Num(a) : a \in {50, 51, 100, 101, 150, 151, 180, 200, MaxAqi}}
        \cup {NA, None}

InitGuide ==
    /\ pc = "start"
    /\ args \in [hour_data : [Temp : GuideTemps,
                              dewpoint_fahrenheit : GuideDewpoints,
                              Wind : GuideWinds, Precip : GuidePrecips,
                              Forecast : GuideForecasts],
                 aqi_value : AqiValues]
    /\ ret = NoResult

CallRunningRecommendation ==
    /\ pc = "start"
    /\ pc' = "_get_running_recommendation"
    /\ ret' = _get_running_recommendation(args.hour_data, args.aqi_value)
    /\ UNCHANGED args

NextGuide == CallRunningRecommendation

SpecGuide == InitGuide /\ [][NextGuide]_vars

(***************************************************************************)
(* calculate_rwi for the hot thunderstorm hour (T=95, dewpoint=78, wind=0, *)
(* precipitation=60, "Thunderstorm") at every whole relative humidity.     *)
(***************************************************************************)
MaxStormHumidity == 100

InitStorm ==
    /\ pc = "start"
    /\ args \in [temperature : {Num(95)},
                 humidity : {Num(h) : h \in 0..MaxStormHumidity},
                 wind_speed : {Num(0)}, precipitation : {Num(60)},
                 forecast : {<<"T", "h", "u", "n", "d", "e", "r", "s", "t", "o", "r", "m">>},
                 dewpoint_fahrenheit : {Num(78)},
                 hour_data : {None}]
    /\ ret = NoResult

NextStorm == CallCalculateRwi

SpecStorm == InitStorm /\ [][NextStorm]_vars

(***************************************************************************)
(* The two conversions of a wind speed given as a string: parse_float of   *)
(* enhanced_rwi.py and the first lines of calculate_rwi_score.  The        *)
(* strings are those of up to MaxWindStrLen characters over WindChars and  *)
(* a few readings as weather data has them.                                *)
(***************************************************************************)
MaxWindStrLen == 3

WindChars == {"1", "5", " ", "m", "/"}

WindStrings ==
    UNION {[1..n -> WindChars] : n \in 0..MaxWindStrLen}
        \cup {<<"N", "/", "A">>, <<"c", "a", "l", "m">>,
              <<"5", " ", "m", "p", "h">>, <<"1", "0", " ", "m", "p", "h">>}

InitWind ==
    /\ pc = "start"
    /\ args \in [wind_speed : {Str(s) : s \in WindStrings}]
    /\ ret = NoResult

CallParseFloat ==
    /\ pc = "start"
    /\ pc' = "parse_float"
    /\ ret' = parse_float(args.wind_speed)
    /\ UNCHANGED args

ConvertWrapperWind ==
    /\ pc = "start"
    /\ pc' = "WrapperWind"
    /\ ret' = WrapperWind(args.wind_speed)
    /\ UNCHANGED args

NextWind == CallParseFloat \/ ConvertWrapperWind

SpecWind == InitWind /\ [][NextWind]_vars

(***************************************************************************)
(* _get_wind_guidance applied to two wind speeds lo <= hi, whole or with a *)
(* half, so that the two risks can be compared; lo may be "N/A".           *)
(***************************************************************************)
MaxWindReading == 30

WindReadings ==
    {Num(v) : v \in 0..MaxWindReading} \cup {Half(v) : v \in 0..MaxWindReading}

\* twice the number x
Twice(x) == 2 * x.v + (IF IsHalf(x) THEN 1 ELSE 0)

InitWindGuide ==
    /\ pc = "start"
    /\ args \in [lo : WindReadings \cup {NA}, hi : WindReadings]
    /\ NotNA(args.lo) => Twice(args.lo) <= Twice(args.hi)
    /\ ret = NoResult

CompareWindGuidance ==
    /\ pc = "start"
    /\ pc' = "_get_wind_guidance"
    /\ ret' = [status |-> "ok",
               lo |-> _get_wind_guidance(args.lo),
               hi |-> _get_wind_guidance(args.hi)]
    /\ UNCHANGED args

NextWindGuide == CompareWindGuidance

SpecWindGuide == InitWindGuide /\ [][NextWindGuide]_vars

(***************************************************************************)
(* _get_heat_stress_guidance applied to two readings lo and hi that differ *)
(* in the temperature only or in the dew point only, hi being the warmer   *)
(* or the more humid one; the numbers are whole or carry a half.           *)
(***************************************************************************)
MinHeatGuideTemp == 73

MaxHeatGuideTemp == 88

MinHeatGuideDewpoint == 57

MaxHeatGuideDewpoint == 78

\* the whole numbers a..b and the halves a + 0.5 .. b + 0.5
Readings(a, b) == {Num(v) : v \in a..b} \cup {Half(v) : v \in a..b}

HeatGuideTemps == Readings(MinHeatGuideTemp, MaxHeatGuideTemp)

HeatGuideDewpoints == Readings(MinHeatGuideDewpoint, MaxHeatGuideDewpoint)

InitHeatGuide ==
    /\ pc = "start"
    /\ args \in [lo : [temp : HeatGuideTemps, dewpoint : HeatGuideDewpoints],
                 hi : [temp : HeatGuideTemps, dewpoint : HeatGuideDewpoints]]
    /\ \/ /\ args.lo.temp = args.hi.temp
          /\ Twice(args.lo.dewpoint) <= Twice(args.hi.dewpoint)
       \/ /\ args.lo.dewpoint = args.hi.dewpoint
          /\ Twice(args.lo.temp) <= Twice(args.hi.temp)
    /\ ret = NoResult

CompareHeatStressGuidance ==
    /\ pc = "start"
    /\ pc' = "_get_heat_stress_guidance"
    /\ ret' = [status |-> "ok",
               lo |-> _get_heat_stress_guidance(args.lo.temp, args.lo.dewpoint),
               hi |-> _get_heat_stress_guidance(args.hi.temp, args.hi.dewpoint)]
    /\ UNCHANGED args

NextHeatGuide == CompareHeatStressGuidance

SpecHeatGuide == InitHeatGuide /\ [][NextHeatGuide]_vars

(***************************************************************************)
(* score_hour_with_scientific_approach on hour records as the parsers      *)
(* build them, around the temperatures of the safety override.             *)
(***************************************************************************)
MaxHourTemp == 95

HourTemps == {Num(t) : t \in {70, 84, 85, 88, 89, 90, MaxHourTemp}} \cup {NA}

HourHumidities == {Num(30), Num(90), NA}

HourWinds == {Num(0), Num(8), Num(35), NA}

HourPrecips == {Num(0), Num(80), NA}

HourDewpoints == {Num(60), Num(78), NA}

HourForecasts == {<<"S", "u", "n", "n", "y">>,
                  <<"M", "o", "s", "t", "l", "y", " ", "C", "l", "o", "u", "d", "y">>}

\* records of the JSON parser, with dew point and solar score, and of the
\* pipe-delimited parser, without
HourRecords ==
    [k : {"dict"}, Temp : HourTemps, Humidity : HourHumidities,
     Wind : HourWinds, Precip : HourPrecips, Forecast : HourForecasts,
     dewpoint_fahrenheit : HourDewpoints, solar_score : {350, 480}]
        \cup [k : {"dict"}, Temp : HourTemps, Humidity : HourHumidities,
              Wind : HourWinds, Precip : HourPrecips, Forecast : HourForecasts]

InitHour ==
    /\ pc = "start"
    /\ args \in [hour_data : HourRecords, aqi_value : {None, Num(42)}]
    /\ ret = NoResult

CallScoreHour ==
    /\ pc = "start"
    /\ pc' = "score_hour_with_scientific_approach"
    /\ ret' \in score_hour_with_scientific_approach(args.hour_data,
                                                    args.aqi_value)
    /\ UNCHANGED args

NextHour == CallScoreHour

SpecHour == InitHour /\ [][NextHour]_vars

(***************************************************************************)
(* The component score sections of calculate_rwi, each applied to two      *)
(* values lo <= hi of its input so that the two scores can be compared.    *)
(* Wind, precipitation and dew point take lo and hi as they are; the       *)
(* thermal section takes the heat indices HeatIndexAt(lo), HeatIndexAt(hi) *)
(* (half-degree steps from 50 degF) and a raw temperature.                 *)
(***************************************************************************)
MaxBandInput == 120

BandTemperatures == {15, 25, 35, 70}

HeatIndexAt(step) == 500000 + 5000 * step

InitBands ==
    /\ pc = "start"
    /\ args \in {[lo |-> a, hi |-> b, T |-> None] :
                    a \in 0..MaxBandInput, b \in 0..MaxBandInput}
    /\ args.lo <= args.hi
    /\ ret = NoResult

ScoreThermal ==
    /\ pc = "start"
    /\ pc' = "S_H"
    /\ \E T \in BandTemperatures :
          /\ args' = [args EXCEPT !.T = Num(T)]
          /\ ret' = [status |-> "ok",
                     lo |-> S_H(HeatIndexAt(args.lo), T),
                     hi |-> S_H(HeatIndexAt(args.hi), T)]

ScoreWind ==
    /\ pc = "start"
    /\ pc' = "S_W"
    /\ ret' = [status |-> "ok", lo |-> S_W(args.lo), hi |-> S_W(args.hi)]
    /\ UNCHANGED args

ScorePrecipitation ==
    /\ pc = "start"
    /\ pc' = "S_P"
    /\ ret' = [status |-> "ok", lo |-> S_P(args.lo), hi |-> S_P(args.hi)]
    /\ UNCHANGED args

ScoreDewpoint ==
    /\ pc = "start"
    /\ pc' = "S_D"
    /\ ret' = [status |-> "ok", lo |-> S_D(args.lo), hi |-> S_D(args.hi)]
    /\ UNCHANGED args

NextBands == ScoreThermal \/ ScoreWind \/ ScorePrecipitation \/ ScoreDewpoint

SpecBands == InitBands /\ [][NextBands]_vars

(***************************************************************************)
(* scoring_agent on the time windows of the form, the hour lists of both   *)
(* forecast parsers and the text of the air-quality server.                *)
(***************************************************************************)
window_names == <<"today_1", "today_2", "tomorrow_1", "tomorrow_2">>

\* the loop of location_agent over window_names: a window is kept when its
\* start and end are both filled in
ExtractTimeWindows(form_data) ==
    SelectSeq([i \in 1..Len(window_names) |->
                   [key   |-> window_names[i],
                    times |-> <<form_data.windows[window_names[i]].start,
                                form_data.windows[window_names[i]].end>>]],
              LAMBDA w : w.times[1] # <<>> /\ w.times[2] # <<>>)

TodayCategory ==
    <<"T", "O", "D", "A", "Y", "-", "S", "e", "p", " ", "2", "4", ",", " ",
      "W", "e", "d", "n", "e", "s", "d", "a", "y">>

TomorrowCategory ==
    <<"T", "O", "M", "O", "R", "R", "O", "W", "-", "S", "e", "p", " ", "2",
      "5", ",", " ", "T", "h", "u", "r", "s", "d", "a", "y">>

Sunny == <<"S", "u", "n", "n", "y">>

\* weather_entry of parse_json_weather_data, as far as scoring reads it
JsonEntry(day_category, day, hour_num) ==
    [k |-> "dict", HourNum |-> Num(hour_num), Temp |-> Num(60 + hour_num),
     Wind |-> Num(8), Precip |-> Num(2), Humidity |-> Num(54),
     Forecast |-> Sunny, dewpoint_fahrenheit |-> Num(59), solar_score |-> 350,
     day_category |-> day_category, Day |-> day]

\* weather_entry of parse_pipe_delimited_weather_data; hour_num may be "N/A"
PipeEntry(day, hour_num) ==
    [k |-> "dict", HourNum |-> hour_num,
     Temp |-> IF NotNA(hour_num) THEN Num(60 + hour_num.v) ELSE Num(70),
     Wind |-> Num(8), Precip |-> Num(2), Humidity |-> Num(54),
     Forecast |-> Sunny, Day |-> day]

ParsedJson ==
    {[today    |-> [i \in 1..Len(a) |-> JsonEntry(TodayCategory, "today", a[i])],
      tomorrow |-> [i \in 1..Len(b) |->
                        JsonEntry(TomorrowCategory, "tomorrow", b[i])]] :
        a \in {<<>>, <<6, 8>>}, b \in {<<6>>, <<7, 9>>}}

ParsedPipe ==
    {[today    |-> [i \in 1..Len(a) |-> PipeEntry("today", a[i])],
      tomorrow |-> [i \in 1..Len(b) |-> PipeEntry("tomorrow", Num(b[i]))]] :
        a \in {<<Num(6)>>, <<Num(6), Num(8)>>, <<NA, Num(7)>>},
        b \in {<<6>>, <<7, 9>>}}

NoWindow == [start |-> <<>>, end |-> <<>>]

EarlyWindow ==
    [start |-> <<"0", "5", ":", "0", "0">>, end |-> <<"0", "7", ":", "0", "0">>]

LateWindow ==
    [start |-> <<"0", "6", ":", "3", "0">>, end |-> <<"0", "9", ":", "0", "0">>]

FormWindows == {NoWindow, EarlyWindow, LateWindow}

Phoenix == <<"P", "h", "o", "e", "n", "i", "x">>

AirQualityRow(month, day, aqi) ==
    [DateForecast  |-> DateText(2025, month, day),
     AQI           |-> aqi,
     Category      |-> <<"G", "o", "o", "d">>,
     ReportingArea |-> Phoenix]

\* what the AirNow API returned: no row, one row, two rows
AirQualityData ==
    {<<>>,
     <<AirQualityRow(9, 24, 42), AirQualityRow(9, 25, 61)>>,
     <<AirQualityRow(12, 5, 9)>>}

AirQualityTimeout ==
    <<"T", "i", "m", "e", "o", "u", "t", " ", "e", "r", "r", "o", "r", ":",
      " ", "A", "i", "r", " ", "q", "u", "a", "l", "i", "t", "y", " ", "s",
      "e", "r", "v", "e", "r", " ", "t", "o", "o", "k", " ", "t", "o", "o",
      " ", "l", "o", "n", "g", " ", "t", "o", " ", "r", "e", "s", "p", "o",
      "n", "d", " ", "f", "o", "r", " ">>

ZipCode == <<"8", "5", "0", "0", "1">>

InitScoring ==
    /\ pc = "start"
    /\ args \in [form_data      : [windows : [today_1    : FormWindows,
                                              today_2    : {NoWindow, LateWindow},
                                              tomorrow_1 : {NoWindow, EarlyWindow},
                                              tomorrow_2 : {NoWindow}]],
                 parsed_weather : ParsedJson \cup ParsedPipe,
                 air_quality    : [status : {"ok"}, data : AirQualityData]
                                      \cup {[status |-> "timeout"]}]
    /\ ret = NoResult

\* the air-quality server answers with its table
GetAirQuality ==
    /\ pc = "start"
    /\ args.air_quality.status = "ok"
    /\ pc' = "get_air_quality_from_server"
    /\ ret' = [status   |-> "ok",
               aqi_data |-> _format_air_quality_forecast(args.air_quality.data)]
    /\ UNCHANGED args

\* the request times out: the tool returns its message for the city
GetAirQualityTimeout ==
    /\ pc = "start"
    /\ args.air_quality.status = "timeout"
    /\ pc' = "get_air_quality_from_server"
    /\ ret' = [status |-> "ok", aqi_data |-> AirQualityTimeout \o ZipCode]
    /\ UNCHANGED args

CallScoringAgent ==
    /\ pc = "get_air_quality_from_server"
    /\ pc' = "scoring_agent"
    /\ ret' = [status       |-> "ok",
               aqi_data     |-> ret.aqi_data,
               scored_hours |->
                   scoring_agent([parsed_weather |-> args.parsed_weather,
                                  time_windows   |->
                                      ExtractTimeWindows(args.form_data),
                                  aqi_data       |-> ret.aqi_data,
                                  scored_hours   |-> None]).scored_hours]
    /\ UNCHANGED args

NextScoring == GetAirQuality \/ GetAirQualityTimeout \/ CallScoringAgent

SpecScoring == InitScoring /\ [][NextScoring]_vars

(***************************************************************************)
(* The agent workflow (multi_agent_runner.py): run_agent_workflow builds   *)
(* the initial AgentState and invokes the graph of create_agent_graph.     *)
(* The graph starts at the supervisor node; after the supervisor the       *)
(* conditional edge calls router; every agent node has an edge back to the *)
(* supervisor, email_agent has an edge to END.  The graph runtime counts   *)
(* the executed nodes and raises GraphRecursionError when recursion_limit  *)
(* nodes have run and another one is due; the graph is compiled and        *)
(* invoked without a limit of its own, so the default applies.             *)
(*                                                                         *)
(* State values are Python values: None, Str, and                          *)
(*   List(seq), Dict(record), Bool(b), Name(node).                         *)
(* pc is the node that runs next, "END" when the graph has finished and    *)
(* "done" when run_agent_workflow has returned.  ret holds the AgentState, *)
(* the nodes invoked so far and, at "done", the result.                    *)
(***************************************************************************)
List(seq) == [k |-> "list", v |-> seq]

Dict(d) == [k |-> "dict", v |-> d]

Bool(b) == [k |-> "bool", v |-> b]

\* the name of a graph node, a string that is never taken apart
Name(n) == [k |-> "name", v |-> n]

\* truth value of a Python value in  if x / not x
Truthy(x) ==
    CASE x.k = "none" -> FALSE
      [] x.k = "str"  -> x.s # <<>>
      [] x.k = "list" -> x.v # <<>>
      [] x.k = "dict" -> DOMAIN x.v # {}
      [] x.k = "bool" -> x.v
      [] x.k = "num"  -> x.v # 0

recursion_limit == 25

LocationRequired ==
    <<"L", "o", "c", "a", "t", "i", "o", "n", " ", "i", "s", " ", "r", "e",
      "q", "u", "i", "r", "e", "d">>

NoForecastData ==
    <<"N", "o", " ", "f", "o", "r", "e", "c", "a", "s", "t", " ", "d", "a",
      "t", "a", " ", "a", "v", "a", "i", "l", "a", "b", "l", "e", " ", "f",
      "o", "r", " ">>

EmailRequired ==
    <<"E", "m", "a", "i", "l", " ", "a", "d", "d", "r", "e", "s", "s", " ",
      "i", "s", " ", "r", "e", "q", "u", "i", "r", "e", "d", " ", "f", "o",
      "r", " ", "e", "m", "a", "i", "l", " ", "d", "e", "l", "i", "v", "e",
      "r", "y">>

NoContentToEmail ==
    <<"N", "o", " ", "c", "o", "n", "t", "e", "n", "t", " ", "t", "o", " ",
      "e", "m", "a", "i", "l">>

\* the initial_state of run_agent_workflow; email_sent is absent, which
\* state.get("email_sent") reads as None
initial_state(form_data) ==
    [form_data          |-> form_data,
     location           |-> Str(<<>>),
     city               |-> Str(<<>>),
     time_windows       |-> <<>>,
     weather_data       |-> None,
     aqi_data           |-> None,
     parsed_weather     |-> None,
     scored_hours       |-> None,
     profile_data       |-> None,
     final_html         |-> None,
     final_user_message |-> None,
     is_mobile          |-> Bool(FALSE),
     next_agent         |-> None,
     error              |-> None,
     email_sent         |-> None]

\* variant: the profile is generated before the forecast is collected
NextStage_ProfileFirst(state, action) ==
    IF ~Truthy(state.profile_data) THEN "profile_agent"
    ELSE IF ~Truthy(state.city) THEN "location_agent"
    ELSE IF ~Truthy(state.weather_data) \/ ~Truthy(state.aqi_data)
    THEN "data_collection_agent"
    ELSE IF ~Truthy(state.parsed_weather) THEN "parsing_agent"
    ELSE IF ~Truthy(state.scored_hours) THEN "scoring_agent"
    ELSE IF ~Truthy(state.final_html) THEN "presentation_agent"
    ELSE IF action = "email_now" /\ ~Truthy(state.email_sent) THEN "email_agent"
    ELSE "end"

\* the if/elif chain of supervisor_agent: the first stage whose output is
\* missing or empty
NextStage(state, action) ==
    IF ~Truthy(state.city) THEN "location_agent"
    ELSE IF ~Truthy(state.weather_data) \/ ~Truthy(state.aqi_data)
    THEN "data_collection_agent"
    ELSE IF ~Truthy(state.parsed_weather) THEN "parsing_agent"
    ELSE IF ~Truthy(state.scored_hours) THEN "scoring_agent"
    ELSE IF ~Truthy(state.profile_data) THEN "profile_agent"
    ELSE IF ~Truthy(state.final_html) THEN "presentation_agent"
    ELSE IF action = "email_now" /\ ~Truthy(state.email_sent) THEN "email_agent"
    ELSE "end"

\* variant: the location is not checked
supervisor_agent_AnyLocation(state) ==
    LET action == state.form_data.action
    IN  IF Truthy(state.final_html)
             /\ (action # "email_now" \/ Truthy(state.email_sent))
        THEN [state EXCEPT !.next_agent = Name("end")]
        ELSE [state EXCEPT !.next_agent = Name(NextStage(state, action))]

supervisor_agent(state) ==
    LET action   == state.form_data.action
        location == state.form_data.location
    IN  IF location = <<>>
        THEN [state EXCEPT !.error = Str(LocationRequired),
                           !.next_agent = Name("end")]
        ELSE IF Truthy(state.final_html)
                  /\ (action # "email_now" \/ Truthy(state.email_sent))
        THEN [state EXCEPT !.next_agent = Name("end")]
        ELSE [state EXCEPT !.next_agent = Name(NextStage(state, action))]

\* variant: email is sent whatever the form action is
router_EmailAnyAction(state) ==
    LET action == state.form_data.action
    IN  IF Truthy(state.error) THEN [to |-> "end", state |-> state]
        ELSE IF Truthy(state.final_html) /\ ~Truthy(state.email_sent)
        THEN [to |-> "email_agent",
              state |-> [state EXCEPT !.email_sent = Bool(TRUE)]]
        ELSE IF Truthy(state.final_html) /\ Truthy(state.email_sent)
        THEN [to |-> "end", state |-> state]
        ELSE [to |-> state.next_agent.v, state |-> state]

\* the conditional edge after the supervisor: the node to run next, and the
\* state with the router's own assignment to email_sent
router(state) ==
    LET action == state.form_data.action
    IN  IF Truthy(state.error) THEN [to |-> "end", state |-> state]
        ELSE IF action = "email_now" /\ Truthy(state.final_html)
                  /\ ~Truthy(state.email_sent)
        THEN [to |-> "email_agent",
              state |-> [state EXCEPT !.email_sent = Bool(TRUE)]]
        ELSE IF Truthy(state.final_html) /\ Truthy(state.email_sent)
        THEN [to |-> "end", state |-> state]
        ELSE IF Truthy(state.final_html) /\ action # "email_now"
        THEN [to |-> "end", state |-> state]
        ELSE [to |-> state.next_agent.v, state |-> state]

\* re.match(r'^\d{5}$', zip_code)
IsZipCode(s) == Len(s) = 5 /\ AllDigits(s)

CityOfZip ==
    <<"P", "h", "o", "e", "n", "i", "x", ",", " ", "A", "Z">>

\* city: the zip code itself or the place the lookup returned
location_agent(state, found) ==
    LET location == state.form_data.location
    IN  [state EXCEPT !.city = Str(IF IsZipCode(location) /\ found
                                   THEN CityOfZip ELSE location),
                      !.location = Str(location),
                      !.time_windows = ExtractTimeWindows(state.form_data)]

WeatherTimeout ==
    <<"T", "i", "m", "e", "o", "u", "t", " ", "e", "r", "r", "o", "r", ":",
      " ", "W", "e", "a", "t", "h", "e", "r", " ", "s", "e", "r", "v", "e",
      "r", " ", "t", "o", "o", "k", " ", "t", "o", "o", " ", "l", "o", "n",
      "g", " ", "t", "o", " ", "r", "e", "s", "p", "o", "n", "d", " ", "f",
      "o", "r", " ">>

\* the forecast text of the weather server stands for the hour lists its
\* parser reads from it; an error message of the tool is a plain string
data_collection_agent(state, weather, air_quality) ==
    [state EXCEPT
        !.weather_data =
            IF weather.status = "ok"
            THEN [k |-> "str", s |-> <<"{">>, forecast |-> weather.forecast]
            ELSE Str(WeatherTimeout \o state.city.s),
        !.aqi_data =
            IF air_quality.status = "ok"
            THEN Str(_format_air_quality_forecast(air_quality.data))
            ELSE Str(AirQualityTimeout \o state.city.s)]

\* parse_weather_data: the hour lists of a forecast; a text without
\* forecast lines gives two empty lists
parse_weather_data(forecast_data) ==
    IF "forecast" \in DOMAIN forecast_data THEN forecast_data.forecast
    ELSE [today |-> <<>>, tomorrow |-> <<>>]

parsing_agent(state) ==
    [state EXCEPT !.parsed_weather = Dict(parse_weather_data(state.weather_data))]

\* scoring_agent as a graph node, on the state values of the workflow
scoring_node(state) ==
    [state EXCEPT !.scored_hours =
        List(scoring_agent([parsed_weather |-> state.parsed_weather.v,
                            time_windows   |-> state.time_windows,
                            aqi_data       |-> state.aqi_data.s,
                            scored_hours   |-> None]).scored_hours)]

\* the profile card data: a dict that always has the five keys added here
profile_agent(state) ==
    [state EXCEPT !.profile_data =
        Dict([dietary_restrictions |-> <<>>, health_conditions |-> <<>>,
              show_nutrition |-> FALSE, strength_training_selected |-> FALSE,
              mindfulness_plan_selected |-> FALSE])]

PresentationFailure ==
    <<"L", "L", "M", " ", "r", "e", "q", "u", "e", "s", "t", " ", "f", "a",
      "i", "l", "e", "d">>

DesktopHtml ==
    <<"<", "d", "i", "v", ">", "f", "o", "r", "e", "c", "a", "s", "t", "<",
      "/", "d", "i", "v", ">">>

MobileHtml ==
    <<"<", "d", "i", "v", ">", "c", "a", "r", "d", "<", "/", "d", "i", "v",
      ">">>

ForecastGenerated ==
    <<"F", "o", "r", "e", "c", "a", "s", "t", " ", "g", "e", "n", "e", "r",
      "a", "t", "e", "d", " ", "f", "o", "r", " ">>

MobileForecastGenerated ==
    <<"M", "o", "b", "i", "l", "e", " ", "f", "o", "r", "e", "c", "a", "s",
      "t", " ", "g", "e", "n", "e", "r", "a", "t", "e", "d", " ", "f", "o",
      "r", " ">>

\* generated: the mobile presentation was generated; otherwise it raised
\* and the outer handler stores the text of the exception.  The desktop
\* branch catches the failures of its parts and always stores its HTML.
presentation_agent(state, generated) ==
    LET is_mobile == state.form_data.mobile_view
    IN  IF ~Truthy(state.scored_hours)
        THEN [state EXCEPT
                 !.error = Str(NoForecastData \o state.city.s \o <<".">>)]
        ELSE IF is_mobile /\ generated
        THEN [state EXCEPT
                 !.final_html = Str(MobileHtml),
                 !.final_user_message =
                     Str(MobileForecastGenerated \o state.city.s \o <<".">>),
                 !.is_mobile = Bool(TRUE)]
        ELSE IF is_mobile
        THEN [state EXCEPT !.error = Str(PresentationFailure)]
        ELSE [state EXCEPT
                 !.final_html = Str(DesktopHtml),
                 !.final_user_message =
                     Str(ForecastGenerated \o state.city.s \o <<".">>),
                 !.is_mobile = Bool(FALSE)]

FailedToSend ==
    <<"F", "a", "i", "l", "e", "d", " ", "t", "o", " ", "s", "e", "n", "d",
      " ", "e", "m", "a", "i", "l", " ", "t", "o", " ">>

ErrorSending ==
    <<"E", "r", "r", "o", "r", " ", "s", "e", "n", "d", "i", "n", "g", " ",
      "e", "m", "a", "i", "l", ":", " ">>

SmtpFailure ==
    <<"S", "M", "T", "P", " ", "c", "o", "n", "n", "e", "c", "t", "i", "o",
      "n", " ", "r", "e", "f", "u", "s", "e", "d">>

ForecastEmailed ==
    <<"F", "o", "r", "e", "c", "a", "s", "t", " ", "e", "m", "a", "i", "l",
      "e", "d", " ", "t", "o", " ">>

Successfully ==
    <<" ", "s", "u", "c", "c", "e", "s", "s", "f", "u", "l", "l", "y", ".">>

\* sent: "yes" (send_email_notification returned True), "no" (it returned
\* False) or "raised"
email_agent(state, sent) ==
    LET email  == state.form_data.email
        marked == [state EXCEPT !.email_sent = Bool(TRUE)]
    IN  IF email = <<>>
        THEN [marked EXCEPT !.error = Str(EmailRequired)]
        ELSE IF ~Truthy(state.final_html)
        THEN [marked EXCEPT !.error = Str(NoContentToEmail)]
        ELSE IF sent = "yes"
        THEN [marked EXCEPT
                 !.final_user_message =
                     Str(ForecastEmailed \o email \o Successfully),
                 !.next_agent = Name("end")]
        ELSE IF sent = "no"
        THEN [marked EXCEPT
                 !.error = Str(FailedToSend \o email \o <<".">>),
                 !.next_agent = Name("end")]
        ELSE [marked EXCEPT
                 !.error = Str(ErrorSending \o SmtpFailure),
                 !.next_agent = Name("end")]

ErrorDivOpen ==
    <<"<", "d", "i", "v", " ", "s", "t", "y", "l", "e", "=", "\"", "c",
      "o", "l", "o", "r", ":", " ", "r", "e", "d", ";", "\"", ">", "E",
      "r", "r", "o", "r", ":", " ">>

ErrorDivClose ==
    <<"<", "/", "d", "i", "v", ">">>

ErrorPrefix ==
    <<"E", "r", "r", "o", "r", ":", " ">>

AnErrorOccurred ==
    <<"A", "n", " ", "e", "r", "r", "o", "r", " ", "o", "c", "c", "u", "r",
      "r", "e", "d", ":", " ">>

\* str(e) of the GraphRecursionError
RecursionMessage ==
    (
    <<"R", "e", "c", "u", "r", "s", "i", "o", "n", " ", "l", "i", "m", "i",
      "t", " ", "o", "f", " ">>
    ) \o Digits(recursion_limit) \o (
    <<" ", "r", "e", "a", "c", "h", "e", "d", " ", "w", "i", "t", "h", "o",
      "u", "t", " ", "h", "i", "t", "t", "i", "n", "g", " ", "a", " ", "s",
      "t", "o", "p", " ", "c", "o", "n", "d", "i", "t", "i", "o", "n", ".">>
    )

\* what run_agent_workflow returns for the final state of the graph
WorkflowResult(final_state) ==
    IF Truthy(final_state.error)
    THEN [final_html         |-> Str(ErrorDivOpen \o final_state.error.s
                                        \o ErrorDivClose),
          final_user_message |-> Str(ErrorPrefix \o final_state.error.s)]
    ELSE [final_html         |-> final_state.final_html,
          final_user_message |-> final_state.final_user_message,
          is_mobile          |-> final_state.is_mobile]

\* what the except branch of run_agent_workflow returns
WorkflowFailure(message) ==
    [final_html         |-> Str(ErrorDivOpen \o message \o ErrorDivClose),
     final_user_message |-> Str(AnErrorOccurred \o message)]

EmailAddress ==
    <<"a", "@", "b", ".", "c">>

WorkflowForms ==
    [location    : {<<>>, ZipCode},
     action      : {"get_forecast", "email_now"},
     email       : {<<>>, EmailAddress},
     mobile_view : BOOLEAN,
     windows     : {[today_1 |-> a, today_2 |-> NoWindow,
                     tomorrow_1 |-> b, tomorrow_2 |-> NoWindow] :
                       a \in {EarlyWindow, LateWindow,
                              [start |-> EarlyWindow.start, end |-> <<>>]},
                       b \in {NoWindow, LateWindow}}]

WorkflowForecasts ==
    {[today    |-> [i \in 1..Len(a) |-> JsonEntry(TodayCategory, "today", a[i])],
      tomorrow |-> [i \in 1..Len(b) |->
                        JsonEntry(TomorrowCategory, "tomorrow", b[i])]] :
        a \in {<<>>, <<6, 8>>}, b \in {<<7, 9>>}}

InitWorkflow ==
    /\ pc = "start"
    /\ args \in [form_data   : WorkflowForms,
                 weather     : [status : {"ok"}, forecast : WorkflowForecasts]
                                   \cup {[status |-> "timeout"]},
                 air_quality : {[status |-> "ok",
                                 data |-> <<AirQualityRow(9, 24, 42)>>],
                                [status |-> "timeout"]}]
    /\ ret = NoResult

\* run_agent_workflow up to graph.invoke: the entry point is the supervisor
RunAgentWorkflow ==
    /\ pc = "start"
    /\ pc' = "supervisor"
    /\ ret' = [status |-> "running",
               state  |-> initial_state(args.form_data),
               calls  |-> <<>>]
    /\ UNCHANGED args

\* a node runs: the state it returns, the node its edge leads to
RunNode(state, to) ==
    /\ Len(ret.calls) < recursion_limit
    /\ pc' = to
    /\ ret' = [ret EXCEPT !.state = state, !.calls = Append(ret.calls, pc)]
    /\ UNCHANGED args

Supervisor ==
    /\ pc = "supervisor"
    /\ LET next == router(supervisor_agent(ret.state))
       IN  RunNode(next.state, IF next.to = "end" THEN "END" ELSE next.to)

LocationAgent ==
    /\ pc = "location_agent"
    /\ \E found \in BOOLEAN :
          RunNode(location_agent(ret.state, found), "supervisor")

DataCollectionAgent ==
    /\ pc = "data_collection_agent"
    /\ RunNode(data_collection_agent(ret.state, args.weather, args.air_quality),
               "supervisor")

ParsingAgent ==
    /\ pc = "parsing_agent"
    /\ RunNode(parsing_agent(ret.state), "supervisor")

ScoringAgent ==
    /\ pc = "scoring_agent"
    /\ RunNode(scoring_node(ret.state), "supervisor")

ProfileAgent ==
    /\ pc = "profile_agent"
    /\ RunNode(profile_agent(ret.state), "supervisor")

PresentationAgent ==
    /\ pc = "presentation_agent"
    /\ \E generated \in BOOLEAN :
          RunNode(presentation_agent(ret.state, generated), "supervisor")

EmailAgent ==
    /\ pc = "email_agent"
    /\ \E sent \in {"yes", "no", "raised"} :
          RunNode(email_agent(ret.state, sent), "END")

AgentNodes ==
    {"location_agent", "data_collection_agent", "parsing_agent",
     "scoring_agent", "profile_agent", "presentation_agent", "email_agent"}

\* recursion_limit nodes have run and another node is due: graph.invoke
\* raises, run_agent_workflow returns from its except branch
RecursionLimitReached ==
    /\ pc \in AgentNodes \cup {"supervisor"}
    /\ Len(ret.calls) = recursion_limit
    /\ pc' = "done"
    /\ ret' = [status |-> "GraphRecursionError",
               state  |-> ret.state,
               calls  |-> ret.calls,
               result |-> WorkflowFailure(RecursionMessage)]
    /\ UNCHANGED args

\* graph.invoke returns the final state; run_agent_workflow returns
ReturnResult ==
    /\ pc = "END"
    /\ pc' = "done"
    /\ ret' = [status |-> "ok",
               state  |-> ret.state,
               calls  |-> ret.calls,
               result |-> WorkflowResult(ret.state)]
    /\ UNCHANGED args

NextWorkflow ==
    \/ RunAgentWorkflow
    \/ Supervisor
    \/ LocationAgent
    \/ DataCollectionAgent
    \/ ParsingAgent
    \/ ScoringAgent
    \/ ProfileAgent
    \/ PresentationAgent
    \/ EmailAgent
    \/ RecursionLimitReached
    \/ ReturnResult

SpecWorkflow == InitWorkflow /\ [][NextWorkflow]_vars

(***************************************************************************)
(* Properties.                                                             *)
(***************************************************************************)
Returned(f) == pc = f /\ ret.status = "ok"

ComponentNames == {"thermal_comfort", "solar_conditions", "wind",
                   "precipitation", "dewpoint_comfort"}

\* C1: every result returned by calculate_rwi, also for the extreme
\* arguments, has its rwi_score and each of its five component scores
\* within [1,5] (100..500 in hundredths).
C1_ScoresWithinBounds ==
    Returned("calculate_rwi") =>
        /\ ret.rwi_score \in 100..500
        /\ DOMAIN ret.components = ComponentNames
        /\ \A c \in ComponentNames : ret.components[c] \in 100..500

C1_Witness ==
    /\ Returned("calculate_rwi")
    /\ args.temperature = Num(MaxTemperature)
    /\ args.humidity = Num(MaxHumidity)

\* the documented rating thresholds applied to a score in hundredths
DocumentedRating(score) ==
    IF score >= 450 THEN 5
    ELSE IF score >= 350 THEN 4
    ELSE IF score >= 250 THEN 3
    ELSE IF score >= 150 THEN 2
    ELSE 1

\* C2: the rating returned by calculate_rwi equals the documented threshold
\* function applied to the rwi_score returned in the same result.
C2_RatingMatchesReturnedScore ==
    Returned("calculate_rwi") => ret.rating = DocumentedRating(ret.rwi_score)

\* C3: for every combination of missing fields ("N/A" or None) both
\* calculate_rwi and calculate_rwi_score return a result with a rating in
\* 1..5 and never raise.
C3_NeverRaises ==
    pc \in {"calculate_rwi", "calculate_rwi_score"} =>
        ret.status = "ok" /\ ret.rating \in 1..5

Headlines == {SummaryHeader(r) : r \in IDEAL..DANGEROUS}

\* C4: _get_running_recommendation returns one of the five risk headlines
\* for every input and never raises, also for "N/A" weather fields and for
\* an AQI value of None.
C4_RecommendationNeverRaises ==
    pc = "_get_running_recommendation" =>
        ret.status = "ok" /\ ret.summary_header \in Headlines

FactorRisks == {ret.guidance_factors[i].risk : i \in 1..4}

\* C5: the overall risk of a recommendation is the maximum of the four
\* factor risk levels under IDEAL < MANAGEABLE < CAUTION < HIGH_RISK <
\* DANGEROUS, and the headline is the one of that level; so a DANGEROUS AQI
\* with three IDEAL factors gives the Dangerous Conditions headline.
C5_OverallRiskIsMaximum ==
    Returned("_get_running_recommendation") =>
        /\ ret.highest_risk \in FactorRisks
        /\ \A r \in FactorRisks : r <= ret.highest_risk
        /\ ret.summary_header = SummaryHeader(ret.highest_risk)
        /\ ret.highest_risk = DANGEROUS =>
               ret.summary_header =
                   "Dangerous Conditions: Outdoor running is not recommended."

C5_Witness ==
    /\ Returned("_get_running_recommendation")
    /\ ret.guidance_factors[4].risk = DANGEROUS
    /\ \A i \in 1..3 : ret.guidance_factors[i].risk = IDEAL
    /\ ret.summary_header =
           "Dangerous Conditions: Outdoor running is not recommended."

\* C6: whenever the forecast text contains "thunder", precipitation
\* guidance is DANGEROUS for every precipitation input, "N/A" included.
C6_ThunderAlwaysDangerous ==
    (Returned("_get_running_recommendation")
         /\ Contains(lower(args.hour_data.Forecast), Thunder)) =>
        ret.guidance_factors[3].risk = DANGEROUS

Messages == {ret.messages[i] : i \in 1..Len(ret.messages)}

\* C7: when the AQI value is missing, AQI guidance contributes IDEAL and its
\* note about unavailable AQI data appears in the recommendation.
C7_MissingAqiNoteShown ==
    (Returned("_get_running_recommendation") /\ ~NotNA(args.aqi_value)) =>
        /\ ret.guidance_factors[4].risk = IDEAL
        /\ AqiUnavailableNote \in Messages

NonIdeal == {i \in 1..4 : ret.guidance_factors[i].risk > IDEAL}

\* the messages of the factors above IDEAL, in factor order
RECURSIVE NonIdealMessages(_)
NonIdealMessages(i) ==
    IF i > 4 THEN <<>>
    ELSE (IF i \in NonIdeal THEN <<ret.guidance_factors[i].msg>> ELSE <<>>)
             \o NonIdealMessages(i + 1)

\* C8 as stated: the advisory list holds exactly one message for each
\* factor above IDEAL and nothing else; it is empty when all four factors
\* are IDEAL.
C8_OnlyFactorMessages ==
    Returned("_get_running_recommendation") =>
        ret.messages = NonIdealMessages(1)

\* C8 as amended: the advisory list holds one message for each factor above
\* IDEAL, in factor order, followed by the fixed UV index note, which is
\* always appended; with four IDEAL factors the list is the UV note alone.
C8_FactorMessagesThenUvNote ==
    Returned("_get_running_recommendation") =>
        /\ ret.messages = Append(NonIdealMessages(1), UvNote)
        /\ Len(ret.messages) = Cardinality(NonIdeal) + 1
        /\ \A i \in NonIdeal : ret.guidance_factors[i].msg # ""

C8_Witness ==
    /\ Returned("_get_running_recommendation")
    /\ Cardinality(NonIdeal) >= 2
    /\ Len(ret.messages) = Cardinality(NonIdeal) + 1

Abs(x) == IF x >= 0 THEN x ELSE -x

\* C9: the score returned by calculate_rwi is the weighted sum
\* 0.45*S_H + 0.20*S_S + 0.15*S_W + 0.10*S_P + 0.10*S_D of the component
\* scores returned with it, within [1,5], up to the two-decimal rounding of
\* the returned numbers (0.01), and the result carries the rating as well.
C9_WeightedAggregate ==
    Returned("calculate_rwi") =>
        LET c == ret.components
            sum == 45 * c.thermal_comfort + 20 * c.solar_conditions
                     + 15 * c.wind + 10 * c.precipitation
                     + 10 * c.dewpoint_comfort
        IN  /\ Abs(100 * ret.rwi_score - sum) <= 100
            /\ ret.rwi_score \in 100..500
            /\ ret.rating \in 1..5

C9_Witness ==
    /\ Returned("calculate_rwi")
    /\ args.temperature = Num(77)
    /\ args.humidity = Num(54)
    /\ args.wind_speed = Str(<<"5", " ", "m", "p", "h">>)
    /\ args.precipitation = Num(2)
    /\ args.forecast = <<"S", "u", "n", "n", "y">>
    /\ args.dewpoint_fahrenheit = Num(59)
    /\ ret.components.thermal_comfort # ret.components.solar_conditions

\* 0.5*(T + 61 + (T-68)*1.2 + R*0.094) in units of 10^-4
SimplifiedValue(T, R) == 5000 * (T + 61) + 6000 * (T - 68) + 470 * R

AtSwitchOver(T, R) ==
    /\ R > 0
    /\ SimplifiedValue(T, R) >= 800000
    /\ SimplifiedValue(T, R - 1) < 800000

C12_ComponentsMonotone ==
    /\ pc = "S_P" =>
          /\ ret.hi <= ret.lo
          /\ ret.lo \in {5000000, 4500000, 4000000, 3000000, 2000000, 1000000}
          /\ args.lo < 5 => ret.lo = 5000000
          /\ args.lo >= 70 => ret.lo = 1000000
    /\ pc = "S_D" =>
          /\ ret.hi <= ret.lo
          /\ ret.lo \in {5000000, 4500000, 3500000, 2500000, 1500000}
          /\ args.lo <= 45 => ret.lo = 5000000
          /\ args.lo > 70 => ret.lo = 1500000
    /\ (pc = "S_H" /\ HeatIndexAt(args.lo) > 650000) => ret.hi <= ret.lo

C12_Witness ==
    /\ pc = "S_H"
    /\ HeatIndexAt(args.lo) > 650000
    /\ args.T = Num(35)
    /\ ret.hi < ret.lo
    /\ ret.lo = 3000000

\* C13 as stated: every wind speed in 1-12 mph scores the highest wind
\* score, and both still air (< 1 mph) and strong wind (> 20 mph) score
\* strictly lower than any wind speed in 1-12 mph.
C13_LightWindScoresHighest ==
    pc = "S_W" =>
        /\ ret.lo <= 5000000
        /\ args.lo \in 1..12 => ret.lo = 5000000
        /\ (args.lo < 1 /\ args.hi \in 1..12) => ret.lo < ret.hi
        /\ (args.lo \in 1..12 /\ args.hi > 20) => ret.hi < ret.lo

\* C13 as amended: the wind score follows six bands (up to 1, 5, 12, 20,
\* 30 mph and above, scoring 3.5, 4.5, 5, 4.5, 3, 2) and is not monotone:
\* the wind speeds above 5 and up to 12 mph score the highest value, a wind
\* speed in 1-12 mph scores no less than still air (< 1 mph) and strictly
\* more once it exceeds 1 mph, and strong wind (> 20 mph) scores strictly
\* lower than any wind speed in 1-12 mph.
C13_WindBands ==
    pc = "S_W" =>
        /\ ret.lo <= 5000000
        /\ ret.lo = (IF args.lo <= 1 THEN 3500000
                     ELSE IF args.lo <= 5 THEN 4500000
                     ELSE IF args.lo <= 12 THEN 5000000
                     ELSE IF args.lo <= 20 THEN 4500000
                     ELSE IF args.lo <= 30 THEN 3000000
                     ELSE 2000000)
        /\ (args.lo > 5 /\ args.lo <= 12) => ret.lo = 5000000
        /\ (args.lo < 1 /\ args.hi \in 1..12) => ret.lo <= ret.hi
        /\ (args.lo < 1 /\ args.hi \in 2..12) => ret.lo < ret.hi
        /\ (args.lo \in 1..12 /\ args.hi > 20) => ret.hi < ret.lo

C13_Witness ==
    /\ pc = "S_W"
    /\ args.lo = 1
    /\ args.hi = 12
    /\ ret.lo = 3500000
    /\ ret.hi = 5000000

\* a forecast text with one of the sun keywords
SunnyForecast == AnyWordIn(SunWords, lower(args.forecast))

\* a forecast text with one of the cloud keywords and no sun keyword
CloudyForecast ==
    /\ ~SunnyForecast
    /\ \/ AnyWordIn(MixedWords, lower(args.forecast))
       \/ AnyWordIn(CloudWords, lower(args.forecast))

\* the heat index calculate_rwi computes from its arguments, in 10^-4
ArgsHeatIndex == calculate_heat_index(args.temperature.v, args.humidity.v)

\* C14 as stated: for a sunny or clear forecast the solar score is reduced
\* exactly when the temperature exceeds 70, by an amount proportional to
\* the excess of the temperature over 70 up to a cap; for a cloudy forecast
\* and for a forecast without keyword it is 5.
C14_PenaltyOnTemperature ==
    Returned("calculate_rwi") =>
        LET T == args.temperature.v
        IN  /\ (SunnyForecast /\ T > 70) =>
                  ret.components.solar_conditions
                      \in RoundTo(5000000 - 5 * Min(800000, 20000 * (T - 70)),
                                  10000)
            /\ (SunnyForecast /\ T <= 70) =>
                  ret.components.solar_conditions = 500
            /\ ~SunnyForecast => ret.components.solar_conditions = 500

\* C14 as amended: for a sunny or clear forecast the solar score is reduced
\* exactly when the heat index exceeds 70, by 5 * min(0.8, 0.02 * (heat
\* index - 70)), so in proportion to the excess of the heat index over 70
\* up to a cap of 4; for a cloudy forecast, hot or not, and for a forecast
\* without keyword it is 5.
C14_PenaltyOnHeatIndex ==
    Returned("calculate_rwi") =>
        /\ (SunnyForecast /\ ArgsHeatIndex > 700000) =>
              /\ ret.components.solar_conditions
                     \in RoundTo(5000000
                                   - 5 * Min(800000, 2 * (ArgsHeatIndex - 700000)),
                                 10000)
              /\ ret.components.solar_conditions \in 100..500
        /\ (SunnyForecast /\ ArgsHeatIndex <= 700000) =>
              ret.components.solar_conditions = 500
        /\ CloudyForecast => ret.components.solar_conditions = 500
        /\ ~SunnyForecast => ret.components.solar_conditions = 500

C14_Witness ==
    /\ Returned("calculate_rwi")
    /\ SunnyForecast
    /\ args.temperature.v > 70
    /\ ArgsHeatIndex <= 700000
    /\ ret.components.solar_conditions = 500

\* calculate_rwi has returned for the sample input of the module:
\* T=77, humidity=54, wind="5 mph", precipitation=2, "Sunny", dewpoint=59
SampleCall ==
    /\ Returned("calculate_rwi")
    /\ args.temperature = Num(77)
    /\ args.humidity = Num(54)
    /\ args.wind_speed = Str(<<"5", " ", "m", "p", "h">>)
    /\ args.precipitation = Num(2)
    /\ args.forecast = <<"S", "u", "n", "n", "y">>
    /\ args.dewpoint_fahrenheit = Num(59)

\* C15: for the sample input calculate_rwi returns a rating of 4 or 5.
C15_SampleRatingFavorable == SampleCall => ret.rating \in {4, 5}

C15_Witness == SampleCall /\ ret.rating = 4 /\ ret.rwi_score = 401

\* C16 as stated: for the sample input the returned heat index is between
\* 78 and 80 and the thermal comfort component is at least 4.
C16_SampleHeatIndex78To80 ==
    SampleCall =>
        /\ ret.heat_index \in 780..800
        /\ ret.components.thermal_comfort >= 400

\* C16 as amended: for the sample input the returned heat index is 76.9
\* (between 76 and 78) and the thermal comfort component is 3.61 (at least
\* 3.5).
C16_SampleHeatIndex ==
    SampleCall =>
        /\ ret.heat_index = 769
        /\ ret.heat_index \in 760..780
        /\ ret.components.thermal_comfort = 361
        /\ ret.components.thermal_comfort >= 350

C16_Witness ==
    /\ SampleCall
    /\ ret.heat_index = 769
    /\ ret.components.thermal_comfort = 361
    /\ ret.components.solar_conditions = 431

\* _get_running_recommendation has returned for the hot thunderstorm hour:
\* T=95, dewpoint=78, wind=0, precipitation=60, "Thunderstorm", AQI=180
StormCall ==
    /\ Returned("_get_running_recommendation")
    /\ args.hour_data.Temp = Num(95)
    /\ args.hour_data.dewpoint_fahrenheit = Num(78)
    /\ args.hour_data.Wind = Num(0)
    /\ args.hour_data.Precip = Num(60)
    /\ args.hour_data.Forecast
           = <<"T", "h", "u", "n", "d", "e", "r", "s", "t", "o", "r", "m">>
    /\ args.aqi_value = Num(180)

\* C17: for the hot thunderstorm hour the overall guidance risk is
\* DANGEROUS, and both the heat stress factor and the precipitation
\* (thunderstorm) factor are DANGEROUS.
C17_StormIsDangerous ==
    StormCall =>
        /\ ret.highest_risk = DANGEROUS
        /\ ret.guidance_factors[1].risk = DANGEROUS
        /\ ret.guidance_factors[3].risk = DANGEROUS

C17_Witness ==
    /\ StormCall
    /\ ret.highest_risk = DANGEROUS
    /\ ret.guidance_factors[2].risk = IDEAL
    /\ ret.guidance_factors[4].risk = HIGH_RISK

\* C18 as stated: for the hot thunderstorm hour the rating of calculate_rwi
\* is at most 2 at every relative humidity in 0..100.
C18_StormRatingAtMost2 ==
    (Returned("calculate_rwi") /\ args.humidity.v <= 100) => ret.rating <= 2

\* C18 as amended: for the hot thunderstorm hour the rating of
\* calculate_rwi is at most 3 at every relative humidity in 0..100; it is
\* 2 at every relative humidity from 37 and 3 below.
C18_StormRatingByHumidity ==
    Returned("calculate_rwi") =>
        /\ ret.rating <= 3
        /\ args.humidity.v >= 37 => ret.rating = 2
        /\ args.humidity.v < 37 => ret.rating = 3

C18_Witness ==
    /\ Returned("calculate_rwi")
    /\ args.humidity = Num(58)
    /\ ret.rating = 2
    /\ ret.components.thermal_comfort = 100

\* C19: a wind speed given as a string converts to the first integer in
\* the string, and to 0 when the string has no digit; neither parse_float
\* nor the conversion of calculate_rwi_score raises for any string.
C19_WindStringFirstInteger ==
    pc \in {"parse_float", "WrapperWind"} =>
        /\ ret.status = "ok"
        /\ ret.v = FirstDigits(args.wind_speed.s)

\* C20: wind guidance is IDEAL without message up to 15, MANAGEABLE from
\* 16 to 25 and CAUTION above 25, so the risk never decreases when the
\* wind speed grows, also between two bands; "N/A" gives IDEAL.
C20_WindGuidanceMonotone ==
    pc = "_get_wind_guidance" =>
        /\ ~NotNA(args.lo) => ret.lo = Guidance(IDEAL, "")
        /\ NotNA(args.lo) =>
              /\ ret.lo.status = "ok" /\ ret.hi.status = "ok"
              /\ Le(args.lo, 15) => ret.lo = Guidance(IDEAL, "")
              /\ Between(16, args.lo, 25) => ret.lo.risk = MANAGEABLE
              /\ ~Le(args.lo, 25) => ret.lo.risk = CAUTION
              /\ ret.lo.risk \in {IDEAL, MANAGEABLE, CAUTION}
              /\ ret.lo.risk <= ret.hi.risk

\* C27: for numeric temperature and dew point, whole or not, the risk
\* level of _get_heat_stress_guidance never decreases when the dew point
\* grows at a fixed temperature, nor when the temperature grows at a fixed
\* dew point.
C27_HeatStressMonotone ==
    pc = "_get_heat_stress_guidance" =>
        /\ ret.lo.status = "ok" /\ ret.hi.status = "ok"
        /\ ret.lo.risk <= ret.hi.risk

\* C28: the temperature override of score_hour_with_scientific_approach
\* (1 from 90 degrees, 2 from 85) never gives an hour a final score above
\* the RWI rating computed for it.
C28_OverrideOnlyLowers ==
    pc = "score_hour_with_scientific_approach" =>
        /\ ret.status = "ok"
        /\ ret.final_score <= ret.rwi_rating

\* C29: in a result of calculate_rwi_score the score is the weighted sum
\* 0.45/0.20/0.15/0.10/0.10 of the components reported with it, within
\* [1,5] and up to the rounding of the returned numbers, also when the
\* solar_score of the hour record has replaced the solar component.
C29_WrapperAggregate ==
    Returned("calculate_rwi_score") =>
        LET c == ret.components
            sum == 45 * c.thermal_comfort + 20 * c.solar_conditions
                     + 15 * c.wind + 10 * c.precipitation
                     + 10 * c.dewpoint_comfort
        IN  /\ Abs(100 * ret.rwi_score - sum) <= 100
            /\ ret.rwi_score \in 100..500

\* the (day, hour) pairs of the parsed forecast that lie in a requested
\* window of their day
InWindow(day, n) ==
    \E i \in 1..Len(ExtractTimeWindows(args.form_data)) :
        LET w == ExtractTimeWindows(args.form_data)[i]
        IN  /\ IsTodayWindow(w.key) <=> day = "today"
            /\ time_to_hour(w.times[1]) <= n
            /\ n <= time_to_hour(w.times[2])

InForecast(day, n) ==
    \E i \in 1..Len(args.parsed_weather[day]) :
        args.parsed_weather[day][i].HourNum = Num(n)

EntriesOf(day, n) ==
    {i \in 1..Len(ret.scored_hours) :
        ret.scored_hours[i].Day = day /\ ret.scored_hours[i].HourNum = Num(n)}

\* C26: after scoring_agent, scored_hours holds exactly one entry for each
\* (day, hour) of the parsed forecast whose hour lies within a requested
\* window of that day and none for any other, and the entries are ordered
\* by day (today before tomorrow), then by hour.
C26_OneEntryPerWindowHour ==
    pc = "scoring_agent" =>
        /\ \A day \in {"today", "tomorrow"}, n \in 0..23 :
              Cardinality(EntriesOf(day, n))
                  = IF InForecast(day, n) /\ InWindow(day, n) THEN 1 ELSE 0
        /\ \A i, j \in 1..Len(ret.scored_hours) :
              i < j =>
                  LET a == ret.scored_hours[i]
                      b == ret.scored_hours[j]
                  IN  \/ a.Day = "today" /\ b.Day = "tomorrow"
                      \/ a.Day = b.Day /\ a.HourNum.v < b.HourNum.v

\* C30: when the air-quality server returned its forecast table, the AQI
\* that scoring_agent extracts from the text and passes to every scored
\* hour is the AQI of the first forecast row; when the text contains no
\* digit the value is None.
C30_AqiOfFirstRow ==
    pc = "scoring_agent" =>
        /\ (args.air_quality.status = "ok" /\ args.air_quality.data # <<>>) =>
              /\ today_aqi(ret.aqi_data) = Num(args.air_quality.data[1].AQI)
              /\ \A i \in 1..Len(ret.scored_hours) :
                    ret.scored_hours[i].aqi_category
                        = get_aqi_category(Num(args.air_quality.data[1].AQI))
        /\ (\A i \in 1..Len(ret.aqi_data) : ~IsDigit(ret.aqi_data[i])) =>
              /\ today_aqi(ret.aqi_data) = None
              /\ \A i \in 1..Len(ret.scored_hours) :
                    ret.scored_hours[i].aqi_category = "Unknown"

\* how often a node has been invoked in the run so far
Count(node) == Cardinality({i \in 1..Len(ret.calls) : ret.calls[i] = node})

\* C21: in a run of the workflow no agent node is invoked more than once,
\* and a run that has finished has finished because the graph reached END
\* (not because the graph runtime gave up), whatever the form and whatever
\* the agents returned.
C21_RunEndsWithoutRepeating ==
    pc # "start" =>
        /\ \A node \in AgentNodes : Count(node) <= 1
        /\ pc = "done" => ret.status = "ok"

\* C22: when scoring_agent has produced no hours, the finished run has gone
\* through presentation_agent and run_agent_workflow reports the error
\* "No forecast data available for <city>.".
C22_NoHoursReported ==
    (pc = "done" /\ Count("scoring_agent") >= 1
                 /\ ret.state.scored_hours = List(<<>>)) =>
        /\ Count("presentation_agent") = 1
        /\ ret.state.error = Str(NoForecastData \o ret.state.city.s \o <<".">>)
        /\ ret.result.final_user_message
               = Str(ErrorPrefix \o NoForecastData \o ret.state.city.s \o <<".">>)

\* C23: while the state carries an error the node to run next is never an
\* agent node (the supervisor's conditional edge leads to END); the result
\* of run_agent_workflow then carries the error text in final_html (inside
\* the red div) and in final_user_message (after "Error: "); and with an
\* empty location the error is "Location is required" and no agent node
\* runs at all.
C23_ErrorEndsRun ==
    pc # "start" =>
        /\ Truthy(ret.state.error) => pc \in {"supervisor", "END", "done"}
        /\ (Truthy(ret.state.error) /\ pc = "supervisor") =>
               router(supervisor_agent(ret.state)).to = "end"
        /\ (Truthy(ret.state.error) /\ pc = "done") =>
               /\ ret.result.final_html
                      = Str(ErrorDivOpen \o ret.state.error.s \o ErrorDivClose)
               /\ ret.result.final_user_message
                      = Str(ErrorPrefix \o ret.state.error.s)
        /\ args.form_data.location = <<>> =>
               /\ \A node \in AgentNodes : Count(node) = 0 /\ pc # node
               /\ pc \in {"END", "done"} => ret.state.error = Str(LocationRequired)

C23_Witness ==
    /\ pc = "done"
    /\ ret.state.error = Str(PresentationFailure)
    /\ ret.calls[Len(ret.calls)] = "supervisor"
    /\ ret.calls[Len(ret.calls) - 1] = "presentation_agent"

\* the nodes invoked after the first invocation of presentation_agent
AfterPresentation ==
    LET first == CHOOSE i \in 1..Len(ret.calls) :
                     /\ ret.calls[i] = "presentation_agent"
                     /\ \A j \in 1..(i - 1) : ret.calls[j] # "presentation_agent"
    IN  SubSeq(ret.calls, first + 1, Len(ret.calls))

\* C24: email_agent is invoked at most once in a run, only when the form
\* action is 'email_now' and only after presentation_agent has stored a
\* non-empty final_html; for every other action it is never invoked and,
\* once final_html is present, the only node that still runs is the
\* supervisor, once, whose edge leads to END.
C24_EmailAtMostOnce ==
    pc # "start" =>
        /\ Count("email_agent") <= 1
        /\ (pc = "email_agent" \/ Count("email_agent") = 1) =>
               /\ args.form_data.action = "email_now"
               /\ Count("presentation_agent") >= 1
               /\ Truthy(ret.state.final_html)
        /\ args.form_data.action # "email_now" =>
               /\ Count("email_agent") = 0 /\ pc # "email_agent"
               /\ Truthy(ret.state.final_html) =>
                      \/ pc = "supervisor" /\ AfterPresentation = <<>>
                      \/ pc \in {"END", "done"}
                            /\ AfterPresentation = <<"supervisor">>

C24_Witness ==
    /\ pc = "done"
    /\ Count("email_agent") = 1
    /\ ret.calls[Len(ret.calls)] = "email_agent"

StageOrder ==
    <<"location_agent", "data_collection_agent", "parsing_agent",
      "scoring_agent", "profile_agent", "presentation_agent", "email_agent">>

Stage(node) == CHOOSE i \in 1..Len(StageOrder) : StageOrder[i] = node

\* the output of a stage is stored in the state
StageOutput(i) ==
    CASE i = 1 -> Truthy(ret.state.city)
      [] i = 2 -> Truthy(ret.state.weather_data) /\ Truthy(ret.state.aqi_data)
      [] i = 3 -> Truthy(ret.state.parsed_weather)
      [] i = 4 -> Truthy(ret.state.scored_hours)
      [] i = 5 -> Truthy(ret.state.profile_data)
      [] i = 6 -> Truthy(ret.state.final_html)

\* C25: an agent node is due only when every earlier stage has run and its
\* output is stored in the state, and the agent nodes of a run are invoked
\* in the order location, data collection, parsing, scoring, profile,
\* presentation, email.
C25_StageOrder ==
    pc # "start" =>
        /\ pc \in AgentNodes =>
               \A j \in 1..(Stage(pc) - 1) :
                   Count(StageOrder[j]) >= 1 /\ StageOutput(j)
        /\ \A i, j \in 1..Len(ret.calls) :
               (i < j /\ ret.calls[i] \in AgentNodes
                      /\ ret.calls[j] \in AgentNodes) =>
                   Stage(ret.calls[i]) <= Stage(ret.calls[j])

C25_Witness ==
    /\ pc = "done"
    /\ \A node \in AgentNodes : Count(node) = 1

====
